---- MODULE Spec2Model ----
(***************************************************************************)
(* logwrap.repr_utils: the pretty formatter (PrettyFormat, PrettyRepr,     *)
(* PrettyStr, pretty_repr, pretty_str) as a state machine.                 *)
(*                                                                         *)
(* A text is a sequence of tokens.  A token is one character ("a", " ",    *)
(* "["), a named control character ("LF", "CR", "TAB", "BSL", "BEL", "VT", *)
(* "FF", "BS"), or an opaque word that holds no space, no line break and   *)
(* no bracket (a class name, the native repr of a function).               *)
(*                                                                         *)
(* process_element is recursive; the machine keeps its call stack: one     *)
(* frame per active call, one step per loop iteration or return.           *)
(***************************************************************************)
EXTENDS Integers, Sequences, FiniteSets, TLC

VARIABLES
    heap,     \* the objects: their class, their content, what they raise
    fmt,      \* the formatter: [mode, max_indent, indent_step]
    stack,    \* active calls of process_element, outermost first
    ret,      \* <<>> or <<r>>: the latest return of process_element
    result,   \* what __call__ handed back or raises: [status, text, error]
    lw,       \* the LogWrap instance: its flags, levels and blacklists
    wcall,    \* the running call of a decorated function
    records,  \* the log records of that call, in the order of emission
    probe,    \* the latest direct use of a parameter object or of pretty_repr
    parked,   \* the calls of the other threads: each its stack, ret and result
    dec       \* the decorator: its function, what the decorated name is, its use

fvars == <<fmt, stack, ret, result>>
lvars == <<lw, wcall, records, probe, heap, parked, dec>>
vars == <<heap, fmt, stack, ret, result, lw, wcall, records, probe, parked, dec>>

(***************************************************************************)
(* Bounds of the model.                                                    *)
(***************************************************************************)
MaxIndentBound == 3     \* max_indent is drawn from 0..MaxIndentBound
MaxStepBound == 2       \* indent_step is drawn from 0..MaxStepBound
MaxStartIndent == 2     \* the indent of a top-level call is in 0..MaxStartIndent
MaxDepth == 9           \* no more than MaxDepth nested calls are followed

(***************************************************************************)
(* Characters.                                                             *)
(***************************************************************************)
SP == " "
NL == "LF"
BSL == "BSL"

Pad(n) == [i \in 1..n |-> SP]

RECURSIVE Cat(_)
Cat(ss) == IF ss = <<>> THEN <<>> ELSE Head(ss) \o Cat(Tail(ss))

RECURSIVE Join(_, _)
Join(sep, ss) ==
    IF ss = <<>> THEN <<>>
    ELSE IF Len(ss) = 1 THEN ss[1]
    ELSE ss[1] \o sep \o Join(sep, Tail(ss))

Max(S) == CHOOSE x \in S : \A y \in S : y <= x

(***************************************************************************)
(* Values.  A value is a text string, a byte string or a named object of   *)
(* the heap; Empty is inspect.Parameter.empty.                             *)
(***************************************************************************)
Ref(n) == [t |-> "obj", n |-> n, s |-> <<>>]
Str(s) == [t |-> "str", n |-> "", s |-> s]
Bytes(s) == [t |-> "bytes", n |-> "", s |-> s]
Empty == [t |-> "empty", n |-> "", s |-> <<>>]

REPR_HOOK == "__pretty_repr__"
STR_HOOK == "__pretty_str__"

Param(name, kind, ann, default) ==
    [name |-> name, kind |-> kind, ann |-> ann, default |-> default]

\* An object of kind k with nothing set.
Blank(k, cls, rep) ==
    [kind |-> k, cls |-> cls, rep |-> rep, str |-> rep, items |-> <<>>,
     pairs |-> <<>>, params |-> <<>>, func |-> Empty, self |-> Empty,
     retann |-> <<>>, hooks |-> {}, raises |-> {}]

IntObj(digits) == Blank("int", "int", digits)
ListObj(items) == [Blank("list", "list", <<>>) EXCEPT !.items = items]
TupleObj(items) == [Blank("tuple", "tuple", <<>>) EXCEPT !.items = items]
SetObj(items) == [Blank("set", "set", <<>>) EXCEPT !.items = items]
FrozenSetObj(items) == [Blank("frozenset", "frozenset", <<>>) EXCEPT !.items = items]
DictObj(pairs) == [Blank("dict", "dict", <<>>) EXCEPT !.pairs = pairs]
FuncObj(rep, params, retann) ==
    [Blank("function", "function", <<rep>>) EXCEPT !.params = params, !.retann = retann]
MethodObj(rep, func, self) ==
    [Blank("method", "method", <<rep>>) EXCEPT !.func = func, !.self = self]
WithHooks(o, hooks) == [o EXCEPT !.hooks = hooks]
\* an object whose hook ("hook"), whose __repr__ and __str__ ("conv") or whose
\* __iter__ ("iter") raise
Raising(o, ops) == [o EXCEPT !.raises = ops]

ObjNames ==
    { "i1", "i22", "obj", "cls", "builtin", "c_obj",
      "l_empty", "l1", "ml1", "l_nest", "l_self", "l_a", "t_b", "l_str", "l_f", "l_fl",
      "t_empty", "t1", "s_empty", "s12", "fs1",
      "d_empty", "d_kv", "d_nest", "d_self",
      "f0", "f_ab", "f_cont", "f_l", "f_vars", "f_self", "f_m", "m_obj", "m_self",
      "h_obj", "h_both", "h_list", "h_dict", "h_set", "h_func", "h_empty", "l_h",
      "e_hook", "e_repr", "e_iter", "l_e", "l_ei", "d_e", "s_e", "f_e",
      "t_22", "t_22_1", "kw_b", "kw_x", "kw_e" }

\* the objects as the program starts
Objects ==
    [n \in ObjNames |->
        CASE n = "i1" -> IntObj(<<"1">>)
          [] n = "i22" -> IntObj(<<"2", "2">>)
          [] n = "obj" -> [Blank("object", "C", <<"<C-object>">>) EXCEPT !.str = <<"C-str">>]
          [] n = "cls" -> Blank("class", "type", <<"<class-C>">>)
          [] n = "builtin" -> Blank("builtin", "builtin_function_or_method", <<"<built-in-function-len>">>)
          [] n = "c_obj" -> Blank("callable", "K", <<"<K-object>">>)
          [] n = "l_empty" -> ListObj(<<>>)
          [] n = "l1" -> ListObj(<<Ref("i1")>>)
          [] n = "l_nest" -> ListObj(<<Ref("t1"), Ref("i22"), Ref("d_kv")>>)
          [] n = "l_self" -> ListObj(<<Ref("l_self")>>)
          [] n = "l_a" -> ListObj(<<Ref("i1"), Ref("t_b")>>)
          [] n = "t_b" -> TupleObj(<<Ref("l_a")>>)
          [] n = "l_str" -> ListObj(<<Str(<<"a", "LF", "b">>), Bytes(<<"a", "xFF">>)>>)
          [] n = "l_f" -> ListObj(<<Ref("f_cont")>>)
          [] n = "l_fl" -> ListObj(<<Ref("f_l")>>)
          [] n = "t_empty" -> TupleObj(<<>>)
          [] n = "t1" -> TupleObj(<<Ref("i1")>>)
          [] n = "s_empty" -> SetObj(<<>>)
          [] n = "s12" -> SetObj(<<Ref("i1"), Str(<<"a">>)>>)
          [] n = "fs1" -> FrozenSetObj(<<Ref("i1")>>)
          [] n = "d_empty" -> DictObj(<<>>)
          [] n = "d_kv" -> DictObj(<< <<Ref("i1"), Ref("i1")>>,
                                      <<Str(<<"a", "b", "c">>), Ref("l1")>>,
                                      <<Ref("i22"), Str(<<"x">>)>> >>)
          [] n = "d_nest" -> DictObj(<< <<Str(<<"k">>), Ref("d_kv")>>,
                                        <<Ref("i22"), Ref("f_ab")>> >>)
          [] n = "d_self" -> DictObj(<< <<Ref("i1"), Ref("d_self")>> >>)
          [] n = "f0" -> FuncObj("<function-f0>", <<>>, <<>>)
          [] n = "f_ab" -> FuncObj("<function-f_ab>",
                                   << Param("a", "POSITIONAL_OR_KEYWORD", <<>>, Empty),
                                      Param("b", "POSITIONAL_OR_KEYWORD", <<"<class-int>">>, Ref("i1")) >>,
                                   <<"<class-int>">>)
          [] n = "f_cont" -> FuncObj("<function-f_cont>",
                                   << Param("a", "POSITIONAL_OR_KEYWORD", <<>>, Ref("l1")) >>, <<>>)
          [] n = "f_l" -> FuncObj("<function-f_l>",
                                   << Param("a", "POSITIONAL_OR_KEYWORD", <<>>, Ref("l_fl")) >>, <<>>)
          [] n = "f_vars" -> FuncObj("<function-f_vars>",
                                   << Param("args", "VAR_POSITIONAL", <<>>, Empty),
                                      Param("k", "KEYWORD_ONLY", <<>>, Ref("d_empty")),
                                      Param("kw", "VAR_KEYWORD", <<>>, Empty) >>, <<>>)
          [] n = "f_self" -> FuncObj("<function-f_self>",
                                   << Param("a", "POSITIONAL_OR_KEYWORD", <<>>, Ref("f_self")) >>, <<>>)
          [] n = "f_m" -> FuncObj("<function-C.m>",
                                   << Param("self", "POSITIONAL_OR_KEYWORD", <<>>, Empty),
                                      Param("x", "POSITIONAL_OR_KEYWORD", <<>>, Ref("i1")) >>, <<>>)
          [] n = "m_obj" -> MethodObj("<bound-method-C.m>", Ref("f_m"), Ref("obj"))
          [] n = "ml1" -> [ListObj(<<Ref("i1")>>) EXCEPT !.cls = "L"]
          [] n = "m_self" -> MethodObj("<bound-method-L.m>", Ref("f_m"), Ref("ml1"))
          [] n = "h_obj" -> WithHooks(Blank("object", "H", <<"<H-object>">>), {REPR_HOOK})
          [] n = "h_both" -> WithHooks(Blank("object", "HB", <<"<HB-object>">>), {REPR_HOOK, STR_HOOK})
          [] n = "h_list" -> WithHooks([ListObj(<<Ref("i1")>>) EXCEPT !.cls = "HList"], {REPR_HOOK, STR_HOOK})
          [] n = "h_dict" -> WithHooks([DictObj(<< <<Ref("i1"), Ref("i1")>> >>) EXCEPT !.cls = "HDict"], {REPR_HOOK, STR_HOOK})
          [] n = "h_set" -> WithHooks([SetObj(<<Ref("i1")>>) EXCEPT !.cls = "HSet"], {REPR_HOOK, STR_HOOK})
          [] n = "h_func" -> WithHooks(FuncObj("<function-h_func>",
                                   << Param("a", "POSITIONAL_OR_KEYWORD", <<>>, Ref("i1")) >>, <<>>), {REPR_HOOK, STR_HOOK})
          [] n = "h_empty" -> WithHooks([TupleObj(<<>>) EXCEPT !.cls = "HTuple"], {REPR_HOOK, STR_HOOK})
          [] n = "l_h" -> ListObj(<<Ref("h_list"), Ref("h_func"), Ref("h_obj")>>)
          [] n = "e_hook" -> Raising(WithHooks(Blank("object", "EH", <<"<EH-object>">>),
                                               {REPR_HOOK, STR_HOOK}), {"hook"})
          [] n = "e_repr" -> Raising(Blank("object", "ER", <<"<ER-object>">>), {"conv"})
          [] n = "e_iter" -> Raising([ListObj(<<Ref("i1")>>) EXCEPT !.cls = "EL"], {"iter"})
          [] n = "l_e" -> ListObj(<<Ref("i1"), Ref("e_repr")>>)
          [] n = "l_ei" -> ListObj(<<Ref("e_iter")>>)
          [] n = "d_e" -> DictObj(<< <<Ref("i1"), Ref("l_e")>>, <<Ref("i22"), Ref("e_hook")>> >>)
          [] n = "s_e" -> SetObj(<<Ref("e_repr")>>)
          [] n = "t_22" -> TupleObj(<<Ref("i22")>>)
          [] n = "t_22_1" -> TupleObj(<<Ref("i22"), Ref("i1")>>)
          [] n = "kw_b" -> DictObj(<< <<Str(<<"b">>), Ref("i22")>> >>)
          [] n = "kw_x" -> DictObj(<< <<Str(<<"x">>), Ref("i1")>> >>)
          [] n = "kw_e" -> DictObj(<< <<Str(<<"a">>), Ref("e_repr")>> >>)
          [] n = "f_e" -> FuncObj("<function-f_e>",
                                   << Param("a", "POSITIONAL_OR_KEYWORD", <<>>, Ref("e_hook")) >>, <<>>)]

Obj(n) == heap[n]

Kind(v) == IF v.t = "obj" THEN Obj(v.n).kind ELSE v.t
Items(v) == IF v.t = "obj" THEN Obj(v.n).items ELSE <<>>
Pairs(v) == IF v.t = "obj" THEN Obj(v.n).pairs ELSE <<>>
Hooks(v) == IF v.t = "obj" THEN Obj(v.n).hooks ELSE {}
Raises(v) == IF v.t = "obj" THEN Obj(v.n).raises ELSE {}
ClassName(v) == IF v.t = "obj" THEN Obj(v.n).cls ELSE v.t

ContainerKinds == {"list", "set", "tuple", "dict", "frozenset"}

\* len(src) of a container: `not src` is len(src) = 0.
Size(v) == IF Kind(v) = "dict" THEN Len(Pairs(v)) ELSE Len(Items(v))

(***************************************************************************)
(* The conversions of the language: repr(), str(), bytes.decode().         *)
(***************************************************************************)
\* repr() of one character of a str.
ReprChar(c) ==
    CASE c = "LF" -> <<BSL, "n">>
      [] c = "CR" -> <<BSL, "r">>
      [] c = "TAB" -> <<BSL, "t">>
      [] c = "BSL" -> <<BSL, BSL>>
      [] c = "BEL" -> <<BSL, "x", "0", "7">>
      [] c = "BS" -> <<BSL, "x", "0", "8">>
      [] c = "VT" -> <<BSL, "x", "0", "b">>
      [] c = "FF" -> <<BSL, "x", "0", "c">>
      [] c = "xFF" -> <<BSL, "x", "f", "f">>
      [] OTHER -> <<c>>

\* bytes.decode(encoding="utf-8", errors="backslashreplace"): the bytes of
\* the model are ASCII bytes and 0xFF, which is never valid UTF-8.
Decode(bs) ==
    Cat([i \in 1..Len(bs) |-> IF bs[i] = "xFF" THEN <<BSL, "x", "f", "f">> ELSE <<bs[i]>>])

\* repr(v); `seen` holds the containers being repr'd (Py_ReprEnter).
RECURSIVE PyRepr(_, _)
PyRepr(v, seen) ==
    LET k == Kind(v)
        sub(xs) == [i \in 1..Len(xs) |-> PyRepr(xs[i], seen \cup {v})]
        commas(xs) == Join(<<",", SP>>, sub(xs))
    IN  CASE k = "str" -> <<"'">> \o Cat([i \in 1..Len(v.s) |-> ReprChar(v.s[i])]) \o <<"'">>
          [] k = "bytes" -> <<"b", "'">> \o Cat([i \in 1..Len(v.s) |-> ReprChar(v.s[i])]) \o <<"'">>
          [] k = "list" ->
                IF v \in seen THEN <<"[", ".", ".", ".", "]">>
                ELSE <<"[">> \o commas(Items(v)) \o <<"]">>
          [] k = "tuple" ->
                IF v \in seen THEN <<"(", ".", ".", ".", ")">>
                ELSE IF Len(Items(v)) = 1 THEN <<"(">> \o commas(Items(v)) \o <<",", ")">>
                ELSE <<"(">> \o commas(Items(v)) \o <<")">>
          [] k = "dict" ->
                IF v \in seen THEN <<"{", ".", ".", ".", "}">>
                ELSE <<"{">>
                     \o Join(<<",", SP>>,
                             [i \in 1..Len(Pairs(v)) |->
                                 PyRepr(Pairs(v)[i][1], seen \cup {v}) \o <<":", SP>>
                                 \o PyRepr(Pairs(v)[i][2], seen \cup {v})])
                     \o <<"}">>
          [] k = "set" ->
                IF Items(v) = <<>> THEN <<"set", "(", ")">>
                ELSE <<"{">> \o commas(Items(v)) \o <<"}">>
          [] k = "frozenset" ->
                IF Items(v) = <<>> THEN <<"frozenset", "(", ")">>
                ELSE <<"frozenset", "(", "{">> \o commas(Items(v)) \o <<"}", ")">>
          [] OTHER -> Obj(v.n).rep

\* str(v)
PyStr(v) ==
    CASE Kind(v) = "str" -> v.s
      [] Kind(v) \in {"bytes"} \cup ContainerKinds -> PyRepr(v, {})
      [] OTHER -> Obj(v.n).str

(***************************************************************************)
(* repr_utils.pyx                                                          *)
(***************************************************************************)
(***************************************************************************)
(* The exceptions of the values: <<operation, object>>.                    *)
(***************************************************************************)
NoError == <<>>

FirstError(errors) ==
    IF \A i \in 1..Len(errors) : errors[i] = <<>> THEN <<>>
    ELSE errors[CHOOSE i \in 1..Len(errors) :
                    errors[i] # <<>> /\ \A j \in 1..(i - 1) : errors[j] = <<>>]

\* the exception of repr(v) or str(v): that of the value's own conversion or
\* the first one of its elements, which repr() of a container converts in turn
RECURSIVE ReprError(_, _)
ReprError(v, seen) ==
    IF v.t # "obj" \/ v.n \in seen THEN <<>>
    ELSE IF "conv" \in Raises(v) THEN <<"conv", v.n>>
    ELSE IF Kind(v) = "dict"
    THEN FirstError([i \in 1..(2 * Len(Pairs(v))) |->
                        ReprError(Pairs(v)[(i + 1) \div 2][2 - (i % 2)], seen \cup {v.n})])
    ELSE IF Kind(v) \in ContainerKinds
    THEN FirstError([i \in 1..Len(Items(v)) |-> ReprError(Items(v)[i], seen \cup {v.n})])
    ELSE <<>>

\* the exception of the hook of the value
HookError(src) == IF "hook" \in Raises(src) THEN <<"hook", src.n>> ELSE <<>>

\* the exception of iter(src)
IterError(src) == IF "iter" \in Raises(src) THEN <<"iter", src.n>> ELSE <<>>

\* the exception of _repr_simple
SimpleError(f, src) ==
    IF Kind(src) = "set"
    THEN FirstError([i \in 1..Len(Items(src)) |-> ReprError(Items(src)[i], {})])
    ELSE ReprError(src, {})

\* callable(item) in place of the test of the two types
known_callable_any(item) ==
    Kind(item) \in {"function", "method", "class", "builtin", "callable"}

known_callable(item) == Kind(item) \in {"function", "method"}

simple(item) == Kind(item) \notin {"list", "set", "tuple", "dict", "frozenset"}

\* the table without its entry for "\a"
SPECIAL_SYMBOLS_ESCAPE_no_bell(sym) ==
    CASE sym = "BSL" -> <<BSL, BSL>>
      [] sym = "LF" -> <<BSL, "n">>
      [] sym = "CR" -> <<BSL, "r">>
      [] sym = "FF" -> <<BSL, "f">>
      [] sym = "VT" -> <<BSL, "v">>
      [] sym = "BS" -> <<BSL, "b">>
      [] sym = "TAB" -> <<BSL, "t">>
      [] OTHER -> <<sym>>

SPECIAL_SYMBOLS_ESCAPE(sym) ==
    CASE sym = "BSL" -> <<BSL, BSL>>
      [] sym = "LF" -> <<BSL, "n">>
      [] sym = "CR" -> <<BSL, "r">>
      [] sym = "FF" -> <<BSL, "f">>
      [] sym = "VT" -> <<BSL, "v">>
      [] sym = "BS" -> <<BSL, "b">>
      [] sym = "TAB" -> <<BSL, "t">>
      [] sym = "BEL" -> <<BSL, "a">>
      [] OTHER -> <<sym>>

\* ReprParameter(parameter, value)
ReprParameter(p, value) ==
    [name |-> CASE p.kind = "VAR_POSITIONAL" -> <<"*", p.name>>
                [] p.kind = "VAR_KEYWORD" -> <<"*", "*", p.name>>
                [] OTHER -> <<p.name>>,
     kind |-> p.kind,
     annotation |-> p.ann,
     value |-> IF value # Empty THEN value ELSE p.default]

prepare_repr(func) ==
    LET ismethod == Kind(func) = "method"
        real_func == IF ismethod THEN Obj(func.n).func ELSE func
        ps == Obj(real_func.n).params
    IN  [i \in 1..Len(ps) |->
            IF i = 1 /\ ismethod /\ Obj(func.n).self # Empty
            THEN ReprParameter(ps[i], Obj(func.n).self)
            ELSE ReprParameter(ps[i], Empty)]

\* inspect.signature(src).return_annotation, as text; <<>> when there is none
ReturnAnnotation(src) ==
    IF Kind(src) = "method" THEN Obj(Obj(src.n).func.n).retann ELSE Obj(src.n).retann

\* next_indent that adds nothing
next_indent_same(f, indent, multiplier) == indent

next_indent(f, indent, multiplier) == indent + multiplier * f.indent_step

magic_method_name(f) == IF f.mode = "repr" THEN REPR_HOOK ELSE STR_HOOK

\* The conversion of the mode: {val!r} in PrettyRepr, {val!s} in PrettyStr.
Conv(f, v) == IF f.mode = "repr" THEN PyRepr(v, {}) ELSE PyStr(v)

\* _strings_repr that marks byte strings like text
strings_repr_one_prefix(indent, val) ==
    LET string == IF Kind(val) = "bytes" THEN Decode(val.s) ELSE val.s
        escaped == Cat([i \in 1..Len(string) |-> SPECIAL_SYMBOLS_ESCAPE(string[i])])
    IN  Pad(indent) \o <<"u", "'", "'", "'">> \o escaped \o <<"'", "'", "'">>

strings_repr(indent, val) ==
    LET string == IF Kind(val) = "bytes" THEN Decode(val.s) ELSE val.s
        prefix == IF Kind(val) = "bytes" THEN "b" ELSE "u"
        escaped == Cat([i \in 1..Len(string) |-> SPECIAL_SYMBOLS_ESCAPE(string[i])])
    IN  Pad(indent) \o <<prefix, "'", "'", "'">> \o escaped \o <<"'", "'", "'">>

strings_str(indent, val) ==
    LET string == IF Kind(val) = "bytes" THEN Decode(val.s) ELSE val.s
    IN  Pad(indent) \o string

\* _repr_simple that indents when told not to
repr_simple_flipped(f, src, indent, no_indent_start) ==
    LET real_indent == IF no_indent_start THEN indent ELSE 0
    IN  IF Kind(src) = "set"
        THEN Pad(real_indent) \o <<"set", "(">>
             \o Join(<<SP, ",">>, [i \in 1..Len(Items(src)) |-> Conv(f, Items(src)[i])])
             \o <<")">>
        ELSE IF Kind(src) \in {"bytes", "str"}
        THEN IF f.mode = "repr" THEN strings_repr(real_indent, src)
                                ELSE strings_str(real_indent, src)
        ELSE Pad(real_indent) \o Conv(f, src)

\* _repr_simple without its branch for sets
repr_simple_no_set(f, src, indent, no_indent_start) ==
    LET real_indent == IF no_indent_start THEN 0 ELSE indent
    IN  IF Kind(src) \in {"bytes", "str"}
        THEN IF f.mode = "repr" THEN strings_repr(real_indent, src)
                                ELSE strings_str(real_indent, src)
        ELSE Pad(real_indent) \o Conv(f, src)

repr_simple(f, src, indent, no_indent_start) ==
    LET real_indent == IF no_indent_start THEN 0 ELSE indent
    IN  IF Kind(src) = "set"
        THEN Pad(real_indent) \o <<"set", "(">>
             \o Join(<<SP, ",">>, [i \in 1..Len(Items(src)) |-> Conv(f, Items(src)[i])])
             \o <<")">>
        ELSE IF Kind(src) \in {"bytes", "str"}
        THEN IF f.mode = "repr" THEN strings_repr(real_indent, src)
                                ELSE strings_str(real_indent, src)
        ELSE Pad(real_indent) \o Conv(f, src)

\* _repr_iterable_item that does not indent the closing line
repr_iterable_item_no_close_pad(f, newline, obj_type, prefix, indent, res, suffix) ==
    IF f.mode = "repr"
    THEN (IF newline THEN <<NL>> ELSE <<>>)
         \o Pad(indent) \o <<obj_type, "(", prefix>> \o res \o <<NL>>
         \o <<suffix, ")">>
    ELSE (IF newline THEN <<NL>> ELSE <<>>)
         \o Pad(indent) \o <<prefix>> \o res \o <<NL>>
         \o <<suffix>>

\* _repr_iterable_item that names the type only of a subclass of a built-in
\* container
repr_iterable_item_bare_builtin(f, newline, obj_type, prefix, indent, res, suffix) ==
    IF f.mode = "repr" /\ obj_type \notin {"list", "tuple", "dict", "set"}
    THEN (IF newline THEN <<NL>> ELSE <<>>)
         \o Pad(indent) \o <<obj_type, "(", prefix>> \o res \o <<NL>>
         \o Pad(indent) \o <<suffix, ")">>
    ELSE (IF newline THEN <<NL>> ELSE <<>>)
         \o Pad(indent) \o <<prefix>> \o res \o <<NL>>
         \o Pad(indent) \o <<suffix>>

\* _repr_iterable_item of PrettyRepr and of PrettyStr
repr_iterable_item(f, newline, obj_type, prefix, indent, res, suffix) ==
    IF f.mode = "repr"
    THEN (IF newline THEN <<NL>> ELSE <<>>)
         \o Pad(indent) \o <<obj_type, "(", prefix>> \o res \o <<NL>>
         \o Pad(indent) \o <<suffix, ")">>
    ELSE (IF newline THEN <<NL>> ELSE <<>>)
         \o Pad(indent) \o <<prefix>> \o res \o <<NL>>
         \o Pad(indent) \o <<suffix>>

\* max_len measured on str(key) in both modes
max_len_str_metric(f, src) ==
    IF Size(src) # 0
    THEN Max({Len(PyStr(Pairs(src)[i][1])) : i \in 1..Size(src)})
    ELSE 0

\* max_len of _repr_dict_items
max_len(f, src) ==
    IF Size(src) # 0
    THEN Max({Len(Conv(f, Pairs(src)[i][1])) : i \in 1..Size(src)})
    ELSE 0

\* format(text, "{size}"): a str is left-aligned and padded to the width
FormatWidth(text, size) ==
    IF Len(text) >= size THEN text ELSE text \o Pad(size - Len(text))

\* one row of _repr_dict_items, `line` being the rendering of the value
dict_row(f, src, indent, key, line) ==
    <<NL>> \o Pad(next_indent(f, indent, 1))
    \o FormatWidth(Conv(f, key), max_len(f, src)) \o <<":", SP>> \o line \o <<",">>

\* a row without its comma
iterable_row_no_comma(line) == <<NL>> \o line

\* one iteration of _repr_iterable_items
iterable_row(line) == <<NL>> \o line \o <<",">>

\* the text of a parameter up to its value, in _repr_callable
param_head(f, indent, param) ==
    <<NL>> \o Pad(next_indent(f, indent, 1)) \o param.name
    \o (IF param.annotation # <<>> THEN <<":", SP>> \o param.annotation ELSE <<>>)

\* an end of _repr_callable that breaks the line before ')' in every case
repr_callable_end_always_break(f, src, indent, param_str) ==
    LET args == param_str \o <<NL>> \o Pad(indent)
        annotation == IF ReturnAnnotation(src) = <<>> THEN <<>>
                      ELSE <<SP, "-", ">", SP>> \o ReturnAnnotation(src)
    IN  <<NL>> \o Pad(indent) \o <<"<">> \o Conv(f, src)
        \o <<SP, "with", SP, "interface", SP, "(">> \o args \o <<")">> \o annotation \o <<">">>

\* the end of _repr_callable, `param_str` being the parameter lines
repr_callable_end(f, src, indent, param_str) ==
    LET args == IF param_str # <<>> THEN param_str \o <<NL>> \o Pad(indent) ELSE param_str
        annotation == IF ReturnAnnotation(src) = <<>> THEN <<>>
                      ELSE <<SP, "-", ">", SP>> \o ReturnAnnotation(src)
    IN  <<NL>> \o Pad(indent) \o <<"<">> \o Conv(f, src)
        \o <<SP, "with", SP, "interface", SP, "(">> \o args \o <<")">> \o annotation \o <<">">>

\* the text a value's override hook returns (the README's __pretty_repr__)
HookResult(f, src, indent, no_indent_start) ==
    Pad(IF no_indent_start THEN 0 ELSE indent) \o <<"hook", ClassName(src), f.mode>>

\* process_element looking for a function before it looks for the hook
process_element_branch_callable_first(f, src, indent) ==
    IF known_callable(src) THEN "callable"
    ELSE IF magic_method_name(f) \in Hooks(src) THEN "hook"
    ELSE IF simple(src) \/ indent >= f.max_indent \/ Size(src) = 0 THEN "simple"
    ELSE IF Kind(src) = "dict" THEN "dict"
    ELSE "iterable"

\* process_element with the guard indent > max_indent
process_element_branch_late_guard(f, src, indent) ==
    IF magic_method_name(f) \in Hooks(src) THEN "hook"
    ELSE IF known_callable(src) THEN "callable"
    ELSE IF simple(src) \/ indent > f.max_indent \/ Size(src) = 0 THEN "simple"
    ELSE IF Kind(src) = "dict" THEN "dict"
    ELSE "iterable"

\* the branch process_element takes
process_element_branch(f, src, indent) ==
    IF magic_method_name(f) \in Hooks(src) THEN "hook"
    ELSE IF known_callable(src) THEN "callable"
    ELSE IF simple(src) \/ indent >= f.max_indent \/ Size(src) = 0 THEN "simple"
    ELSE IF Kind(src) = "dict" THEN "dict"
    ELSE "iterable"

Prefix(src) ==
    CASE Kind(src) = "dict" -> "{"
      [] Kind(src) = "list" -> "["
      [] Kind(src) = "tuple" -> "("
      [] OTHER -> "{"

Suffix(src) ==
    CASE Kind(src) = "dict" -> "}"
      [] Kind(src) = "list" -> "]"
      [] Kind(src) = "tuple" -> ")"
      [] OTHER -> "}"

(***************************************************************************)
(* process_element as a function of the value, for the callers of          *)
(* pretty_repr that take its text: the same branches and rows as the call  *)
(* stack below, for values that do not contain themselves.                 *)
(***************************************************************************)
RECURSIVE process_element_text(_, _, _, _)
process_element_text(f, src, indent, no_indent_start) ==
    LET branch == process_element_branch(f, src, indent)
    IN  CASE branch = "hook" -> HookResult(f, src, indent, no_indent_start)
          [] branch = "simple" -> repr_simple(f, src, indent, no_indent_start)
          [] branch = "callable" ->
                repr_callable_end(f, src, indent,
                    Cat([i \in 1..Len(prepare_repr(src)) |->
                            LET param == prepare_repr(src)[i]
                            IN  param_head(f, indent, param)
                                \o (IF param.value # Empty
                                    THEN <<"=">> \o process_element_text(f, param.value, indent, TRUE)
                                    ELSE <<>>)
                                \o <<",">>]))
          [] branch = "dict" ->
                repr_iterable_item(f, no_indent_start, ClassName(src), Prefix(src), indent,
                    Cat([i \in 1..Size(src) |->
                            dict_row(f, src, indent, Pairs(src)[i][1],
                                     process_element_text(f, Pairs(src)[i][2],
                                                          next_indent(f, indent, 2), TRUE))]),
                    Suffix(src))
          [] OTHER ->
                repr_iterable_item(f, no_indent_start, ClassName(src), Prefix(src), indent,
                    Cat([i \in 1..Size(src) |->
                            iterable_row(process_element_text(f, Items(src)[i],
                                                              next_indent(f, indent, 1), FALSE))]),
                    Suffix(src))

\* the exception process_element raises for the value, NoError if it returns
RECURSIVE process_element_error(_, _, _)
process_element_error(f, src, indent) ==
    LET branch == process_element_branch(f, src, indent)
    IN  CASE branch = "hook" -> HookError(src)
          [] branch = "simple" -> SimpleError(f, src)
          [] branch = "callable" ->
                FirstError([i \in 1..Len(prepare_repr(src)) |->
                                IF prepare_repr(src)[i].value # Empty
                                THEN process_element_error(f, prepare_repr(src)[i].value, indent)
                                ELSE NoError])
          [] branch = "dict" ->
                FirstError([i \in 1..Size(src) |->
                                process_element_error(f, Pairs(src)[i][2], next_indent(f, indent, 2))])
          [] OTHER ->
                IF IterError(src) # NoError THEN IterError(src)
                ELSE FirstError([i \in 1..Size(src) |->
                                    process_element_error(f, Items(src)[i], next_indent(f, indent, 1))])

(***************************************************************************)
(* logwrap.log_wrap: BoundParameter, bind_args_kwargs and the texts and    *)
(* records of LogWrap.  An exception is <<class or operation, origin>>.    *)
(***************************************************************************)
INDENT == 4
DefaultMaxIndent == 20
DefaultIndentStep == 4

\* repr_utils.pretty_repr, as log_wrap calls it
pretty_repr_formatter(max_indent) ==
    [mode |-> "repr", max_indent |-> max_indent, indent_step |-> DefaultIndentStep]
pretty_repr(src, indent, no_indent_start, max_indent) ==
    process_element_text(pretty_repr_formatter(max_indent), src, indent, no_indent_start)
pretty_repr_error(src, indent, max_indent) ==
    process_element_error(pretty_repr_formatter(max_indent), src, indent)

\* LogWrap.__init__ with its defaults
LogWrapDefault ==
    [log_level |-> "DEBUG", exc_level |-> "ERROR", max_indent |-> DefaultMaxIndent,
     blacklisted_names |-> {}, blacklisted_exceptions |-> {},
     log_call_args |-> TRUE, log_call_args_on_exc |-> TRUE,
     log_traceback |-> TRUE, log_result_obj |-> TRUE]

\* inspect.signature(self._spec or func), spec not given
Signature(func) == Obj(func.n).params
FuncName(func) == Obj(func.n).rep[1]

PositionalKinds == {"POSITIONAL_ONLY", "POSITIONAL_OR_KEYWORD"}
Positionals(sig) == {i \in 1..Len(sig) : sig[i].kind \in PositionalKinds}
IndexOf(sig, S, k) == CHOOSE i \in S : Cardinality({j \in S : j <= i}) = k
HasKind(sig, kind) == \E i \in 1..Len(sig) : sig[i].kind = kind
KwNames(kwargs) == {kwargs[j][1] : j \in 1..Len(kwargs)}
KwValue(kwargs, name) == kwargs[CHOOSE j \in 1..Len(kwargs) : kwargs[j][1] = name][2]

\* the keywords that name a parameter (a positional-only one takes none)
Named(sig, kwargs) ==
    {j \in 1..Len(kwargs) :
        \E i \in 1..Len(sig) : /\ sig[i].name = kwargs[j][1]
                               /\ sig[i].kind \in {"POSITIONAL_OR_KEYWORD", "KEYWORD_ONLY"}}
\* the other keywords, which go to **kwargs, as pairs, in call order
Extra(sig, kwargs) ==
    LET rest == {j \in 1..Len(kwargs) : j \notin Named(sig, kwargs)}
    IN  [k \in 1..Cardinality(rest) |->
            <<Str(<<kwargs[IndexOf(kwargs, rest, k)][1]>>), kwargs[IndexOf(kwargs, rest, k)][2]>>]

\* the tuple and the dict that hold the extra arguments
PackTuple(items) == Ref(CHOOSE n \in ObjNames : Obj(n) = TupleObj(items))
PackDict(pairs) == Ref(CHOOSE n \in ObjNames : Obj(n) = DictObj(pairs))

\* sig.bind(*args, **kwargs).arguments: the value of the i-th parameter, Empty
\* if the call gives none
Bound(sig, args, kwargs, i) ==
    LET pos == Cardinality({j \in Positionals(sig) : j <= i})
    IN  CASE sig[i].kind \in PositionalKinds /\ pos <= Len(args) -> args[pos]
          [] sig[i].kind \in {"POSITIONAL_OR_KEYWORD", "KEYWORD_ONLY"}
                /\ sig[i].name \in KwNames(kwargs) -> KwValue(kwargs, sig[i].name)
          [] sig[i].kind = "VAR_POSITIONAL" /\ Len(args) > Cardinality(Positionals(sig)) ->
                PackTuple(SubSeq(args, Cardinality(Positionals(sig)) + 1, Len(args)))
          [] sig[i].kind = "VAR_KEYWORD" /\ Extra(sig, kwargs) # <<>> ->
                PackDict(Extra(sig, kwargs))
          [] OTHER -> Empty

\* the TypeError of sig.bind, NoError if the arguments fit the signature
BindError(sig, args, kwargs) ==
    IF \/ Len(args) > Cardinality(Positionals(sig)) /\ ~HasKind(sig, "VAR_POSITIONAL")
       \/ \E i \in Positionals(sig) :
            /\ Cardinality({j \in Positionals(sig) : j <= i}) <= Len(args)
            /\ sig[i].kind = "POSITIONAL_OR_KEYWORD"
            /\ sig[i].name \in KwNames(kwargs)
       \/ Extra(sig, kwargs) # <<>> /\ ~HasKind(sig, "VAR_KEYWORD")
       \/ \E i \in 1..Len(sig) :
            /\ sig[i].kind \notin {"VAR_POSITIONAL", "VAR_KEYWORD"}
            /\ Bound(sig, args, kwargs, i) = Empty
            /\ sig[i].default = Empty
    THEN <<"TypeError", "bind">>
    ELSE NoError

\* BoundParameter.__init__
BoundParameter(parameter, value) ==
    [name |-> parameter.name, kind |-> parameter.kind, annotation |-> parameter.ann,
     default |-> parameter.default,
     value |-> IF value = Empty THEN parameter.default ELSE value]

\* the ValueError of BoundParameter.__init__
BoundParameterError(parameter, value) ==
    IF /\ value = Empty
       /\ parameter.default = Empty
       /\ parameter.kind \notin {"VAR_POSITIONAL", "VAR_KEYWORD"}
    THEN <<"ValueError", "BoundParameter">>
    ELSE NoError

\* bind_args_kwargs, for arguments that fit
bind_args_kwargs(sig, args, kwargs) ==
    [i \in 1..Len(sig) |->
        BoundParameter(sig[i], IF Bound(sig, args, kwargs, i) # Empty
                               THEN Bound(sig, args, kwargs, i)
                               ELSE sig[i].default)]

\* inspect.formatannotation(annotation): the name of a class
formatannotation(annotation) ==
    IF annotation = <<"<class-int>">> THEN <<"int">> ELSE annotation

\* BoundParameter.__str__
BoundParameterStr(param) ==
    LET head == IF param.kind = "POSITIONAL_ONLY" THEN <<"<", param.name, ">">>
                ELSE <<param.name>>
        annotation == IF param.annotation # <<>>
                      THEN <<":", SP>> \o formatannotation(param.annotation) ELSE <<>>
        value == IF param.value # Empty THEN param.value
                 ELSE IF param.kind = "VAR_POSITIONAL" THEN Ref("t_empty")
                 ELSE IF param.kind = "VAR_KEYWORD" THEN Ref("d_empty")
                 ELSE param.value
        default == IF param.default # Empty
                   THEN <<SP, SP, "#", SP>> \o PyRepr(param.default, {})
                   ELSE <<>>
        stars == CASE param.kind = "VAR_POSITIONAL" -> <<"*">>
                   [] param.kind = "VAR_KEYWORD" -> <<"*", "*">>
                   [] OTHER -> <<>>
    IN  stars \o head \o annotation \o <<"=">> \o PyRepr(value, {}) \o default

\* BoundParameter.__str__: the exception of repr() it raises
BoundParameterStrError(param) ==
    FirstError(<<ReprError(param.value, {}), ReprError(param.default, {})>>)

\* hash(): of a list, a dict or a set a TypeError, of a tuple that of its items
RECURSIVE Hashable(_)
Hashable(v) ==
    /\ Kind(v) \notin {"list", "dict", "set"}
    /\ Kind(v) = "tuple" => \A i \in 1..Len(Items(v)) : Hashable(Items(v)[i])

\* ReprParameter.__hash__: the exception it raises
ReprParameterHashError(param) == <<"TypeError", "ReprParameter">>

\* BoundParameter has no __hash__ of its own: that of inspect.Parameter, the
\* hash of (name, kind, annotation, default)
BoundParameterHashError(param) ==
    IF param.default = Empty \/ Hashable(param.default) THEN NoError
    ELSE <<"TypeError", "default">>
BoundParameterHash(param) == <<param.name, param.kind, param.annotation, param.default>>

\* the exceptions: their classes, isinstance
ExcClass(e) == IF e[1] \in {"hook", "conv", "iter"} THEN "Err" ELSE e[1]
IsException(e) == ExcClass(e) # "KeyboardInterrupt"
IsInstance(e, classes) ==
    \E c \in classes : c = ExcClass(e) \/ (c = "Exception" /\ IsException(e))

\* a value that is {} for a parameter of either kind
ArgValue_dict_for_both(param) ==
    IF param.value # Empty THEN param.value
    ELSE IF param.kind \in {"VAR_POSITIONAL", "VAR_KEYWORD"} THEN Ref("d_empty")
    ELSE param.value

\* the value _get_func_args_repr renders for a parameter
ArgValue(param) ==
    IF param.value # Empty THEN param.value
    ELSE IF param.kind = "VAR_POSITIONAL" THEN Ref("t_empty")
    ELSE IF param.kind = "VAR_KEYWORD" THEN Ref("d_empty")
    ELSE param.value

\* getattr(param.annotation, '__name__', param.annotation)
AnnotationName(annotation) ==
    IF annotation = <<"<class-int>">> THEN <<"int">> ELSE annotation

\* the parameters _get_func_args_repr does not skip
Shown(w, params) == {i \in 1..Len(params) : params[i].name \notin w.blacklisted_names}

\* the kind of the last parameter rendered before the i-th, "None" if none was
last_kind(w, params, i) ==
    IF \E j \in Shown(w, params) : j < i
    THEN params[Max({j \in Shown(w, params) : j < i})].kind
    ELSE "None"

\* one iteration of the loop of _get_func_args_repr: what it adds to param_str
arg_row(w, params, i) ==
    IF i \notin Shown(w, params) THEN <<>>
    ELSE (IF last_kind(w, params, i) # params[i].kind
          THEN <<NL>> \o Pad(INDENT) \o <<"#", SP, params[i].kind, ":">>
          ELSE <<>>)
         \o <<NL>> \o Pad(INDENT) \o <<params[i].name, "=">>
         \o pretty_repr(ArgValue(params[i]), INDENT + 4, TRUE, w.max_indent)
         \o <<",">>
         \o (IF params[i].annotation = <<>> THEN <<>>
             ELSE <<SP, SP, "#", SP, "type", ":", SP>> \o AnnotationName(params[i].annotation))

\* LogWrap._get_func_args_repr: its text, for arguments that fit; param_str
\* is not empty when a parameter was rendered, and then a line feed ends it
get_func_args_repr(w, sig, args, kwargs) ==
    IF ~(w.log_call_args \/ w.log_call_args_on_exc) THEN <<>>
    ELSE Cat([i \in 1..Len(sig) |-> arg_row(w, bind_args_kwargs(sig, args, kwargs), i)])
         \o (IF Shown(w, bind_args_kwargs(sig, args, kwargs)) # {} THEN <<NL>> ELSE <<>>)

\* LogWrap._get_func_args_repr: the exception it raises
get_func_args_repr_error(w, sig, args, kwargs) ==
    IF ~(w.log_call_args \/ w.log_call_args_on_exc) THEN NoError
    ELSE IF BindError(sig, args, kwargs) # NoError THEN <<"TypeError", "bind">>
    ELSE FirstError([i \in 1..Len(sig) |->
                        IF i \in Shown(w, bind_args_kwargs(sig, args, kwargs))
                        THEN pretty_repr_error(
                                 ArgValue(bind_args_kwargs(sig, args, kwargs)[i]),
                                 INDENT + 4, w.max_indent)
                        ELSE NoError])

\* a pre-call record that shows the arguments when either flag is set
calling_record_either_flag(w, name, arguments, method) ==
    [level |-> w.log_level,
     msg |-> <<method, ":", SP, NL, name, "(">>
             \o (IF w.log_call_args \/ w.log_call_args_on_exc THEN arguments ELSE <<>>)
             \o <<")">>]

\* LogWrap._make_calling_record: the record it logs
calling_record(w, name, arguments, method) ==
    [level |-> w.log_level,
     msg |-> <<method, ":", SP, NL, name, "(">>
             \o (IF w.log_call_args THEN arguments ELSE <<>>) \o <<")">>]

\* a 'Done' record that shows the result whatever log_result_obj says
done_record_always_result(w, func_name, res) ==
    [level |-> w.log_level,
     msg |-> <<"Done", ":", SP, "'", func_name, "'">>
             \o <<SP, "with", SP, "result", ":", NL>>
             \o pretty_repr(res, 0, FALSE, w.max_indent)]

\* LogWrap._make_done_record: the record it logs, the exception it raises
done_record(w, func_name, res) ==
    [level |-> w.log_level,
     msg |-> <<"Done", ":", SP, "'", func_name, "'">>
             \o (IF w.log_result_obj
                 THEN <<SP, "with", SP, "result", ":", NL>>
                      \o pretty_repr(res, 0, FALSE, w.max_indent)
                 ELSE <<>>)]
done_record_error(w, res) ==
    IF w.log_result_obj THEN pretty_repr_error(res, 0, w.max_indent) ELSE NoError

\* LogWrap._make_exc_record: the record it logs
exc_record(w, name, arguments, exception) ==
    LET tb_text == IF w.log_traceback /\ ~IsInstance(exception, w.blacklisted_exceptions)
                   THEN <<"Traceback", SP, "(most recent call last)", ":", NL,
                          "<frames>", ExcClass(exception)>>
                   ELSE <<ExcClass(exception)>>
    IN  [level |-> w.exc_level,
         msg |-> <<"Failed", ":", SP, NL, name, "(">>
                 \o (IF w.log_call_args_on_exc THEN arguments ELSE <<>>) \o <<")", NL>>
                 \o tb_text]

\* no call of a decorated function is running; no direct use was made
NoCall ==
    [pc |-> "idle", func |-> Empty, args |-> <<>>, kwargs |-> <<>>, args_repr |-> <<>>,
     result |-> Empty, func_exc |-> NoError, exc |-> NoError, steps |-> <<>>]
\* no decorator was constructed: the wrapper is used as it is
NoDecorator ==
    [func |-> Empty, name |-> "none", wrapped |-> Empty, built |-> 0, calls |-> 0,
     changes |-> 0, given_names |-> {}, given_exceptions |-> {}, entry |-> LogWrapDefault,
     first |-> 1]
NoParam == [name |-> "", kind |-> "", annotation |-> <<>>, default |-> Empty, value |-> Empty]
NoProbe ==
    [op |-> "none", subject |-> Empty, param |-> NoParam, indent |-> 0, text |-> <<>>,
     error |-> NoError, hash |-> <<>>]

(***************************************************************************)
(* The inputs of a top-level call.                                         *)
(***************************************************************************)
Chars == {"a", "n", "LF", "CR", "TAB", "BSL", "BEL", "VT", "FF", "BS"}

Strings ==
    {<<>>} \cup {<<c>> : c \in Chars}
    \cup { <<"a", "LF", "b">>, <<"BSL", "n">>, <<"a", "BSL", "LF">> }

ByteStrings ==
    {<<>>} \cup {<<c>> : c \in Chars \cup {"xFF"}}
    \cup { <<"a", "xFF">>, <<"BSL", "x", "f", "f">>, <<"LF", "xFF">> }

Values ==
    {Ref(n) : n \in ObjNames} \cup {Str(s) : s \in Strings}
    \cup {Bytes(b) : b \in ByteStrings}

Formatters ==
    [mode : {"repr", "str"}, max_indent : 0..MaxIndentBound, indent_step : 0..MaxStepBound]

(***************************************************************************)
(* The call stack of process_element.                                      *)
(***************************************************************************)
\* a call of process_element(src, indent, no_indent_start) that has just begun:
\* pos counts the elements, pairs or parameters done, acc is the text of them
Frame(src, indent, nis) ==
    [src |-> src, indent |-> indent, nis |-> nis, pos |-> 0, acc |-> <<>>]

Depth == Len(stack)
Top == stack[Depth]
Branch(fr) == process_element_branch(fmt, fr.src, fr.indent)
NoResult == [status |-> "none", text |-> <<>>, error |-> NoError]
\* a call of process_element that is running, no exception on its way
Running == stack # <<>> /\ result.status = "none"

Init ==
    /\ heap = Objects
    /\ fmt \in Formatters
    /\ stack = <<>>
    /\ ret = <<>>
    /\ result = NoResult
    /\ lw = LogWrapDefault
    /\ wcall = NoCall
    /\ records = <<>>
    /\ probe = NoProbe
    /\ parked = <<>>
    /\ dec = NoDecorator

\* a call that keeps its indent in the formatter
Call_sets_max_indent(src, indent, no_indent_start) ==
    /\ stack = <<>>
    /\ result = NoResult
    /\ stack' = <<Frame(src, indent, no_indent_start)>>
    /\ ret' = <<>>
    /\ result' = NoResult
    /\ fmt' = [fmt EXCEPT !.max_indent = indent]
    /\ UNCHANGED lvars

\* PrettyFormat.__call__ begins (pretty_repr and pretty_str call a formatter
\* they have just built)
Call(src, indent, no_indent_start) ==
    /\ stack = <<>>
    /\ result = NoResult
    /\ stack' = <<Frame(src, indent, no_indent_start)>>
    /\ ret' = <<>>
    /\ result' = NoResult
    /\ UNCHANGED <<fmt, lvars>>

\* the caller's use of the text a nested call returned
Resume(parent, text) ==
    LET acc == CASE Branch(parent) = "iterable" -> parent.acc \o iterable_row(text)
                 [] Branch(parent) = "dict" ->
                        parent.acc \o dict_row(fmt, parent.src, parent.indent,
                                               Pairs(parent.src)[parent.pos + 1][1], text)
                 [] OTHER -> parent.acc \o <<"=">> \o text \o <<",">>
    IN  [parent EXCEPT !.acc = acc, !.pos = @ + 1]

\* the top call returns `text`
Return(text, hook_args) ==
    /\ ret' = << [src |-> Top.src, indent |-> Top.indent, nis |-> Top.nis,
                  text |-> text, hook_args |-> hook_args, depth |-> Depth] >>
    /\ IF Depth = 1
       THEN /\ stack' = <<>>
            /\ result' = [status |-> "ok", text |-> text, error |-> NoError]
       ELSE /\ stack' = SubSeq(stack, 1, Depth - 2) \o <<Resume(stack[Depth - 1], text)>>
            /\ UNCHANGED result
    /\ UNCHANGED <<fmt, lvars>>

\* a nested call of process_element
Push(parent, fr) ==
    /\ Depth < MaxDepth
    /\ stack' = SubSeq(stack, 1, Depth - 1) \o <<parent, fr>>
    /\ UNCHANGED <<fmt, ret, result, lvars>>

\* process_element: the value has the hook of the mode
ProcessHook ==
    /\ Running
    /\ Branch(Top) = "hook"
    /\ HookError(Top.src) = NoError
    /\ Return(HookResult(fmt, Top.src, Top.indent, Top.nis),
              << [formatter |-> fmt, indent |-> Top.indent, no_indent_start |-> Top.nis] >>)

\* process_element: self._repr_simple
ProcessSimple ==
    /\ Running
    /\ Branch(Top) = "simple"
    /\ SimpleError(fmt, Top.src) = NoError
    /\ Return(repr_simple(fmt, Top.src, Top.indent, Top.nis), <<>>)

\* _repr_iterable_items: the next element
IterableNext ==
    /\ Running
    /\ Branch(Top) = "iterable"
    /\ IterError(Top.src) = NoError
    /\ Top.pos < Size(Top.src)
    /\ Push(Top, Frame(Items(Top.src)[Top.pos + 1], next_indent(fmt, Top.indent, 1), FALSE))

\* _repr_dict_items: the next pair
DictNext ==
    /\ Running
    /\ Branch(Top) = "dict"
    /\ Top.pos < Size(Top.src)
    /\ Push(Top, Frame(Pairs(Top.src)[Top.pos + 1][2], next_indent(fmt, Top.indent, 2), TRUE))

\* process_element: self._repr_iterable_item, all elements or pairs done
ContainerDone ==
    /\ Running
    /\ Branch(Top) \in {"iterable", "dict"}
    /\ IterError(Top.src) = NoError
    /\ Top.pos = Size(Top.src)
    /\ Return(repr_iterable_item(fmt, Top.nis, ClassName(Top.src), Prefix(Top.src),
                                 Top.indent, Top.acc, Suffix(Top.src)), <<>>)

\* _repr_callable: a parameter without value
CallableParam ==
    /\ Running
    /\ Branch(Top) = "callable"
    /\ Top.pos < Len(prepare_repr(Top.src))
    /\ LET param == prepare_repr(Top.src)[Top.pos + 1]
       IN  /\ param.value = Empty
           /\ stack' = SubSeq(stack, 1, Depth - 1)
                       \o << [Top EXCEPT !.acc = @ \o param_head(fmt, Top.indent, param) \o <<",">>,
                                         !.pos = @ + 1] >>
    /\ UNCHANGED <<fmt, ret, result, lvars>>

\* _repr_callable: a parameter with a value, which process_element renders
CallableValue ==
    /\ Running
    /\ Branch(Top) = "callable"
    /\ Top.pos < Len(prepare_repr(Top.src))
    /\ LET param == prepare_repr(Top.src)[Top.pos + 1]
       IN  /\ param.value # Empty
           /\ Push([Top EXCEPT !.acc = @ \o param_head(fmt, Top.indent, param)],
                   Frame(param.value, Top.indent, TRUE))

\* _repr_callable: all parameters done
CallableDone ==
    /\ Running
    /\ Branch(Top) = "callable"
    /\ Top.pos = Len(prepare_repr(Top.src))
    /\ Return(repr_callable_end(fmt, Top.src, Top.indent, Top.acc), <<>>)

\* the top call raises: the exception is on its way out of its frame
Throw(error) ==
    /\ result' = [status |-> "raising", text |-> <<>>, error |-> error]
    /\ UNCHANGED <<fmt, stack, ret, lvars>>

\* process_element: the hook raises
HookRaises ==
    /\ Running
    /\ Branch(Top) = "hook"
    /\ HookError(Top.src) # NoError
    /\ Throw(HookError(Top.src))

\* _repr_simple: repr() or str() of the value raises
SimpleRaises ==
    /\ Running
    /\ Branch(Top) = "simple"
    /\ SimpleError(fmt, Top.src) # NoError
    /\ Throw(SimpleError(fmt, Top.src))

\* _repr_iterable_items: `for elem in src` raises
IterRaises ==
    /\ Running
    /\ Branch(Top) = "iterable"
    /\ IterError(Top.src) # NoError
    /\ Throw(IterError(Top.src))

\* a frame with a handler that puts a text in place of the failed element
Propagate_fallback ==
    /\ result.status = "raising"
    /\ stack # <<>>
    /\ IF Depth = 1
       THEN /\ stack' = <<>>
            /\ result' = [result EXCEPT !.status = "raised"]
       ELSE /\ stack' = SubSeq(stack, 1, Depth - 2) \o <<Resume(stack[Depth - 1], <<"<error>">>)>>
            /\ result' = NoResult
    /\ UNCHANGED <<fmt, ret, lvars>>

\* no function of the formatter has a try statement: the exception leaves
\* the frame it passes, up to the caller of __call__
Propagate ==
    /\ result.status = "raising"
    /\ stack # <<>>
    /\ stack' = SubSeq(stack, 1, Depth - 1)
    /\ result' = IF Depth = 1 THEN [result EXCEPT !.status = "raised"] ELSE result
    /\ UNCHANGED <<fmt, ret, lvars>>

\* PrettyFormat.__call__ ends: the caller has the text, nothing of the call
\* stays in the formatter
CallReturn ==
    /\ result.status \in {"ok", "raised"}
    /\ result' = NoResult
    /\ ret' = <<>>
    /\ UNCHANGED <<fmt, stack, lvars>>

Next ==
    \/ \E src \in Values, indent \in 0..MaxStartIndent, nis \in BOOLEAN :
            Call(src, indent, nis)
    \/ ProcessHook
    \/ ProcessSimple
    \/ IterableNext
    \/ DictNext
    \/ ContainerDone
    \/ CallableParam
    \/ CallableValue
    \/ CallableDone
    \/ HookRaises
    \/ SimpleRaises
    \/ IterRaises
    \/ Propagate
    \/ CallReturn

Spec == Init /\ [][Next]_vars

(***************************************************************************)
(* Several threads that call the same formatter: each thread has its own   *)
(* call of process_element, with its own frames; the threads share the     *)
(* formatter and the objects.  The thread that runs is the one of stack,   *)
(* ret and result; the others are parked, and the scheduler may switch     *)
(* between any two steps.                                                  *)
(***************************************************************************)
OtherThreads == {"t2"}

ConcFormatters ==
    [mode : {"repr", "str"}, max_indent : {1, MaxIndentBound}, indent_step : {1}]
ConcValues ==
    {Ref("i1"), Ref("l1"), Ref("d_kv"), Ref("f_ab"), Ref("h_obj"), Ref("l_e"),
     Ref("e_hook"), Ref("l_ei")}

NoThread == [stack |-> <<>>, ret |-> <<>>, result |-> NoResult]

InitConc ==
    /\ heap = Objects
    /\ fmt \in ConcFormatters
    /\ stack = <<>>
    /\ ret = <<>>
    /\ result = NoResult
    /\ lw = LogWrapDefault
    /\ wcall = NoCall
    /\ records = <<>>
    /\ probe = NoProbe
    /\ parked = [t \in OtherThreads |-> NoThread]
    /\ dec = NoDecorator

\* threads that share the record of the latest return
Switch_shared_ret(t) ==
    /\ t \in DOMAIN parked
    /\ stack' = parked[t].stack
    /\ result' = parked[t].result
    /\ parked' = [parked EXCEPT ![t] = [stack |-> stack, ret |-> ret, result |-> result]]
    /\ UNCHANGED <<heap, dec, fmt, ret, lw, wcall, records, probe>>

\* the scheduler runs the parked thread t and parks the running one
Switch(t) ==
    /\ t \in DOMAIN parked
    /\ stack' = parked[t].stack
    /\ ret' = parked[t].ret
    /\ result' = parked[t].result
    /\ parked' = [parked EXCEPT ![t] = [stack |-> stack, ret |-> ret, result |-> result]]
    /\ UNCHANGED <<heap, dec, fmt, lw, wcall, records, probe>>

NextConc ==
    \/ \E src \in ConcValues, no_indent_start \in BOOLEAN : Call(src, 0, no_indent_start)
    \/ ProcessHook
    \/ ProcessSimple
    \/ IterableNext
    \/ DictNext
    \/ ContainerDone
    \/ CallableParam
    \/ CallableValue
    \/ CallableDone
    \/ HookRaises
    \/ SimpleRaises
    \/ IterRaises
    \/ Propagate
    \/ CallReturn
    \/ \E t \in OtherThreads : Switch(t)

SpecConc == InitConc /\ [][NextConc]_vars

(***************************************************************************)
(* The calls of a function decorated with a LogWrap instance: the wrapper  *)
(* of LogWrap._get_function_wrapper, one step per statement.               *)
(***************************************************************************)
Funcs == {Ref("f0"), Ref("f_ab"), Ref("f_vars")}
CallArgs == {<<>>, <<Ref("i22")>>, <<Ref("i22"), Ref("i1")>>}
CallKwargs ==
    {<<>>, << <<"b", Ref("i22")>> >>, << <<"x", Ref("i1")>> >>, << <<"a", Ref("e_repr")>> >>}
FuncResults == {Ref("i1"), Ref("l1"), Ref("e_repr")}
FuncExceptions ==
    {<<"ValueError", "func">>, <<"KeyError", "func">>, <<"KeyboardInterrupt", "func">>}

LogWraps ==
    {[LogWrapDefault EXCEPT !.log_call_args = flags[1], !.log_call_args_on_exc = flags[2],
                            !.log_traceback = flags[3], !.log_result_obj = flags[4],
                            !.blacklisted_names = names, !.blacklisted_exceptions = excs] :
        flags \in [1..4 -> BOOLEAN], names \in {{}, {"b"}},
        excs \in {{}, {"ValueError"}, {"Exception"}}}

InitLog ==
    /\ heap = Objects
    /\ fmt = pretty_repr_formatter(DefaultMaxIndent)
    /\ stack = <<>>
    /\ ret = <<>>
    /\ result = NoResult
    /\ lw \in LogWraps
    /\ wcall = NoCall
    /\ records = <<>>
    /\ probe = NoProbe
    /\ parked = <<>>
    /\ dec = NoDecorator

Idle == wcall.pc = "idle" /\ probe = NoProbe
Step(name) == Append(wcall.steps, name)

\* wrapper(*args, **kwargs) is called
WrapperCall(func, args, kwargs) ==
    /\ Idle
    /\ wcall' = [NoCall EXCEPT !.pc = "args_repr", !.func = func, !.args = args,
                               !.kwargs = kwargs]
    /\ records' = <<>>
    /\ UNCHANGED <<heap, dec, parked, fvars, lw, probe>>

\* a wrapper that binds and renders the arguments inside its try statement
GetFuncArgsRepr_inside_try ==
    /\ wcall.pc = "args_repr"
    /\ \E error \in {get_func_args_repr_error(lw, Signature(wcall.func), wcall.args,
                                               wcall.kwargs)} :
        \E steps \in {IF lw.log_call_args \/ lw.log_call_args_on_exc
                       THEN Step("bind") ELSE wcall.steps} :
            wcall' = IF error # NoError
                     THEN [wcall EXCEPT !.pc = "except", !.exc = error, !.steps = steps]
                     ELSE [wcall EXCEPT !.pc = "calling", !.steps = steps,
                               !.args_repr = get_func_args_repr(lw, Signature(wcall.func),
                                                                wcall.args, wcall.kwargs)]
    /\ UNCHANGED <<heap, dec, parked, fvars, lw, records, probe>>

\* args_repr = self._get_func_args_repr(sig=sig, args=args, kwargs=kwargs),
\* before the try statement
GetFuncArgsRepr ==
    /\ wcall.pc = "args_repr"
    /\ \E error \in {get_func_args_repr_error(lw, Signature(wcall.func), wcall.args,
                                               wcall.kwargs)} :
        \E steps \in {IF lw.log_call_args \/ lw.log_call_args_on_exc
                       THEN Step("bind") ELSE wcall.steps} :
            wcall' = IF error # NoError
                     THEN [wcall EXCEPT !.pc = "raised", !.exc = error, !.steps = steps]
                     ELSE [wcall EXCEPT !.pc = "calling", !.steps = steps,
                               !.args_repr = get_func_args_repr(lw, Signature(wcall.func),
                                                                wcall.args, wcall.kwargs)]
    /\ UNCHANGED <<heap, dec, parked, fvars, lw, records, probe>>

\* self._make_calling_record(...)
MakeCallingRecord ==
    /\ wcall.pc = "calling"
    /\ records' = Append(records, calling_record(lw, FuncName(wcall.func), wcall.args_repr,
                                                 "Calling"))
    /\ wcall' = [wcall EXCEPT !.pc = "invoke", !.steps = Step("calling")]
    /\ UNCHANGED <<heap, dec, parked, fvars, lw, probe>>

\* result = func(*args, **kwargs): the function returns a value
FuncReturns(res) ==
    /\ wcall.pc = "invoke"
    /\ BindError(Signature(wcall.func), wcall.args, wcall.kwargs) = NoError
    /\ wcall' = [wcall EXCEPT !.pc = "done", !.result = res, !.steps = Step("invoke")]
    /\ UNCHANGED <<heap, dec, parked, fvars, lw, records, probe>>

\* result = func(*args, **kwargs): the function raises
FuncRaises(exception) ==
    /\ wcall.pc = "invoke"
    /\ BindError(Signature(wcall.func), wcall.args, wcall.kwargs) = NoError
    /\ wcall' = [wcall EXCEPT !.pc = "except", !.func_exc = exception, !.exc = exception,
                              !.steps = Step("invoke")]
    /\ UNCHANGED <<heap, dec, parked, fvars, lw, records, probe>>

\* result = func(*args, **kwargs): the arguments do not fit the function
FuncRejectsArgs ==
    /\ wcall.pc = "invoke"
    /\ BindError(Signature(wcall.func), wcall.args, wcall.kwargs) # NoError
    /\ wcall' = [wcall EXCEPT !.pc = "except", !.func_exc = <<"TypeError", "call">>,
                              !.exc = <<"TypeError", "call">>, !.steps = Step("invoke")]
    /\ UNCHANGED <<heap, dec, parked, fvars, lw, records, probe>>

\* a wrapper that makes the 'Done' record after its try statement
MakeDoneRecord_after_try ==
    /\ wcall.pc = "done"
    /\ \E error \in {done_record_error(lw, wcall.result)} :
        IF error # NoError
        THEN /\ wcall' = [wcall EXCEPT !.pc = "raise", !.exc = error]
             /\ UNCHANGED records
        ELSE /\ wcall' = [wcall EXCEPT !.pc = "return", !.steps = Step("done")]
             /\ records' = Append(records, done_record(lw, FuncName(wcall.func),
                                                       wcall.result))
    /\ UNCHANGED <<heap, dec, parked, fvars, lw, probe>>

\* self._make_done_record(...), inside the try statement
MakeDoneRecord ==
    /\ wcall.pc = "done"
    /\ \E error \in {done_record_error(lw, wcall.result)} :
        IF error # NoError
        THEN /\ wcall' = [wcall EXCEPT !.pc = "except", !.exc = error]
             /\ UNCHANGED records
        ELSE /\ wcall' = [wcall EXCEPT !.pc = "return", !.steps = Step("done")]
             /\ records' = Append(records, done_record(lw, FuncName(wcall.func),
                                                       wcall.result))
    /\ UNCHANGED <<heap, dec, parked, fvars, lw, probe>>

\* a wrapper whose except clause makes no record of a blacklisted exception
MakeExcRecord_skip_blacklisted ==
    /\ wcall.pc = "except"
    /\ IsException(wcall.exc)
    /\ records' = IF IsInstance(wcall.exc, lw.blacklisted_exceptions) THEN records
                  ELSE Append(records, exc_record(lw, FuncName(wcall.func), wcall.args_repr,
                                                  wcall.exc))
    /\ wcall' = [wcall EXCEPT !.pc = "raise", !.steps = Step("failed")]
    /\ UNCHANGED <<heap, dec, parked, fvars, lw, probe>>

\* except Exception as e: self._make_exc_record(...); raise
MakeExcRecord ==
    /\ wcall.pc = "except"
    /\ IsException(wcall.exc)
    /\ records' = Append(records, exc_record(lw, FuncName(wcall.func), wcall.args_repr,
                                             wcall.exc))
    /\ wcall' = [wcall EXCEPT !.pc = "raise", !.steps = Step("failed")]
    /\ UNCHANGED <<heap, dec, parked, fvars, lw, probe>>

\* an exception that is no Exception passes the except clause
PassBaseException ==
    /\ wcall.pc = "except"
    /\ ~IsException(wcall.exc)
    /\ wcall' = [wcall EXCEPT !.pc = "raise"]
    /\ UNCHANGED <<heap, dec, parked, fvars, lw, records, probe>>

\* return result
WrapperReturn ==
    /\ wcall.pc = "return"
    /\ wcall' = [wcall EXCEPT !.pc = "returned", !.steps = Step("return")]
    /\ UNCHANGED <<heap, dec, parked, fvars, lw, records, probe>>

\* the exception leaves the wrapper
WrapperRaise ==
    /\ wcall.pc = "raise"
    /\ wcall' = [wcall EXCEPT !.pc = "raised"]
    /\ UNCHANGED <<heap, dec, parked, fvars, lw, records, probe>>

\* the caller goes on
WrapperDone ==
    /\ wcall.pc \in {"returned", "raised"}
    /\ wcall' = NoCall
    /\ records' = <<>>
    /\ UNCHANGED <<heap, dec, parked, fvars, lw, probe>>

\* hash(param) of a ReprParameter of _prepare_repr(func)
HashReprParameter(func, i) ==
    /\ Idle
    /\ i \in 1..Len(prepare_repr(func))
    /\ probe' = [NoProbe EXCEPT !.op = "hash(ReprParameter)", !.subject = func,
                                !.param = prepare_repr(func)[i],
                                !.error = ReprParameterHashError(prepare_repr(func)[i])]
    /\ UNCHANGED <<heap, dec, parked, fvars, lw, wcall, records>>

\* hash(param) of a BoundParameter of bind_args_kwargs
HashBoundParameter(func, args, kwargs, i) ==
    /\ Idle
    /\ BindError(Signature(func), args, kwargs) = NoError
    /\ i \in 1..Len(Signature(func))
    /\ \E param \in {bind_args_kwargs(Signature(func), args, kwargs)[i]} :
        probe' = [NoProbe EXCEPT !.op = "hash(BoundParameter)", !.subject = func,
                                 !.param = param,
                                 !.error = BoundParameterHashError(param),
                                 !.hash = IF BoundParameterHashError(param) = NoError
                                          THEN BoundParameterHash(param) ELSE <<>>]
    /\ UNCHANGED <<heap, dec, parked, fvars, lw, wcall, records>>

\* str(param) of a BoundParameter of bind_args_kwargs
StrBoundParameter(func, args, kwargs, i) ==
    /\ Idle
    /\ BindError(Signature(func), args, kwargs) = NoError
    /\ i \in 1..Len(Signature(func))
    /\ \E param \in {bind_args_kwargs(Signature(func), args, kwargs)[i]} :
        probe' = [NoProbe EXCEPT !.op = "str(BoundParameter)", !.subject = func,
                                 !.param = param,
                                 !.text = IF BoundParameterStrError(param) = NoError
                                          THEN BoundParameterStr(param) ELSE <<>>,
                                 !.error = BoundParameterStrError(param)]
    /\ UNCHANGED <<heap, dec, parked, fvars, lw, wcall, records>>

\* pretty_repr(func) of a function that is not being called
ReprFunction(func, indent) ==
    /\ Idle
    /\ probe' = [NoProbe EXCEPT !.op = "pretty_repr", !.subject = func, !.indent = indent,
                                !.text = pretty_repr(func, indent, FALSE, DefaultMaxIndent)]
    /\ UNCHANGED <<heap, dec, parked, fvars, lw, wcall, records>>

\* the caller goes on
ProbeDone ==
    /\ probe # NoProbe
    /\ probe' = NoProbe
    /\ UNCHANGED <<heap, dec, parked, fvars, lw, wcall, records>>

NextLog ==
    \/ \E func \in Funcs, args \in CallArgs, kwargs \in CallKwargs :
            WrapperCall(func, args, kwargs)
    \/ GetFuncArgsRepr
    \/ MakeCallingRecord
    \/ \E res \in FuncResults : FuncReturns(res)
    \/ \E exception \in FuncExceptions : FuncRaises(exception)
    \/ FuncRejectsArgs
    \/ MakeDoneRecord
    \/ MakeExcRecord
    \/ PassBaseException
    \/ WrapperReturn
    \/ WrapperRaise
    \/ WrapperDone
    \/ \E func \in Funcs, i \in 1..3 : HashReprParameter(func, i)
    \/ \E func \in Funcs, args \in CallArgs, kwargs \in CallKwargs, i \in 1..3 :
            \/ HashBoundParameter(func, args, kwargs, i)
            \/ StrBoundParameter(func, args, kwargs, i)
    \/ \E func \in Funcs, indent \in 0..MaxStartIndent : ReprFunction(func, indent)
    \/ ProbeDone

SpecLog == InitLog /\ [][NextLog]_vars

(***************************************************************************)
(* A function decorated with a LogWrap instance and called through its     *)
(* decorated name: BaseDecorator.__init__ and __call__, the wrapper of     *)
(* _get_function_wrapper, and the attributes of the instance, which the    *)
(* program may set between and during the calls.  The records of all the   *)
(* calls are kept.                                                         *)
(***************************************************************************)
MaxCalls == 2
MaxChanges == 1

DecFuncs == {Ref("f_ab")}
DecArgs == {<<>>, <<Ref("l1")>>}
DecResults == {Ref("l1")}
DecExceptions == {<<"ValueError", "func">>, <<"KeyboardInterrupt", "func">>}
DecNames == {{}, {"a"}}
DecExceptionClasses == {{}, {"ValueError"}}

\* LogWrap(...), LogWrap(func, ...): the keyword arguments given
DecLogWraps ==
    {[LogWrapDefault EXCEPT !.log_call_args = flag, !.log_call_args_on_exc = flag,
                            !.blacklisted_names = names] :
        flag \in BOOLEAN, names \in DecNames}

\* the values the public attributes are set to
AttributeValues ==
    [log_level |-> {"DEBUG", "INFO"}, exc_level |-> {"ERROR", "WARNING"},
     max_indent |-> {DefaultMaxIndent, INDENT},
     log_call_args |-> BOOLEAN, log_call_args_on_exc |-> BOOLEAN,
     log_traceback |-> BOOLEAN, log_result_obj |-> BOOLEAN]

\* BaseDecorator.__init__ and LogWrap.__init__: self._func = func, the
\* blacklists are copies of the iterables given
InitDec ==
    /\ heap = Objects
    /\ fmt = pretty_repr_formatter(DefaultMaxIndent)
    /\ stack = <<>>
    /\ ret = <<>>
    /\ result = NoResult
    /\ lw \in DecLogWraps
    /\ wcall = NoCall
    /\ records = <<>>
    /\ probe = NoProbe
    /\ parked = <<>>
    /\ \E func \in DecFuncs \cup {Empty} :
        dec = [NoDecorator EXCEPT !.func = func,
                                  !.name = IF func # Empty THEN "instance" ELSE "none",
                                  !.given_names = lw.blacklisted_names,
                                  !.given_exceptions = lw.blacklisted_exceptions,
                                  !.entry = lw]

\* BaseDecorator.__call__(func) of an instance made without a function:
\* wrapped = l_args.pop(0), the wrapper is built and returned
Decorate(func) ==
    /\ Idle
    /\ dec.func = Empty
    /\ dec.name = "none"
    /\ dec' = [dec EXCEPT !.name = "wrapper", !.wrapped = func, !.built = dec.built + 1]
    /\ UNCHANGED <<heap, parked, fvars, lw, wcall, records, probe>>

\* an instance that builds its wrapper on the first call only
CallInstance_build_once(args, kwargs) ==
    /\ Idle
    /\ dec.name = "instance"
    /\ dec.calls < MaxCalls
    /\ dec' = [dec EXCEPT !.built = 1, !.calls = dec.calls + 1,
                          !.entry = lw, !.first = Len(records) + 1]
    /\ wcall' = [NoCall EXCEPT !.pc = "args_repr", !.func = dec.func, !.args = args,
                               !.kwargs = kwargs,
                               !.steps = IF dec.built = 0 THEN <<"wrap">> ELSE <<>>]
    /\ UNCHANGED <<heap, parked, fvars, lw, records, probe>>

\* BaseDecorator.__call__(*args, **kwargs) of an instance made with the
\* function: wrapped = self._func, the wrapper is built and called
CallInstance(args, kwargs) ==
    /\ Idle
    /\ dec.name = "instance"
    /\ dec.calls < MaxCalls
    /\ dec' = [dec EXCEPT !.built = dec.built + 1, !.calls = dec.calls + 1,
                          !.entry = lw, !.first = Len(records) + 1]
    /\ wcall' = [NoCall EXCEPT !.pc = "args_repr", !.func = dec.func, !.args = args,
                               !.kwargs = kwargs, !.steps = <<"wrap">>]
    /\ UNCHANGED <<heap, parked, fvars, lw, records, probe>>

\* wrapper(*args, **kwargs): the decorated name is the plain wrapper
CallWrapper(args, kwargs) ==
    /\ Idle
    /\ dec.name = "wrapper"
    /\ dec.calls < MaxCalls
    /\ dec' = [dec EXCEPT !.calls = dec.calls + 1, !.entry = lw,
                          !.first = Len(records) + 1]
    /\ wcall' = [NoCall EXCEPT !.pc = "args_repr", !.func = dec.wrapped, !.args = args,
                               !.kwargs = kwargs]
    /\ UNCHANGED <<heap, parked, fvars, lw, records, probe>>

\* the caller goes on; the logger keeps the records
CallDone ==
    /\ wcall.pc \in {"returned", "raised"}
    /\ wcall' = NoCall
    /\ UNCHANGED <<heap, parked, fvars, lw, records, probe, dec>>

\* the program may change the decorator between two calls and while the
\* decorated function runs
MayChange ==
    /\ wcall.pc \in {"idle", "invoke"}
    /\ dec.name # "none"
    /\ dec.changes < MaxChanges

\* instance.<attribute> = value, of a public attribute
SetAttribute(attribute, value) ==
    /\ MayChange
    /\ value # lw[attribute]
    /\ lw' = [lw EXCEPT ![attribute] = value]
    /\ dec' = [dec EXCEPT !.changes = dec.changes + 1]
    /\ UNCHANGED <<heap, parked, fvars, wcall, records, probe>>

\* instance.blacklisted_names.append(...) / .remove(...): the property
\* returns the list of the instance
MutateBlacklistedNames(names) ==
    /\ MayChange
    /\ names # lw.blacklisted_names
    /\ lw' = [lw EXCEPT !.blacklisted_names = names]
    /\ dec' = [dec EXCEPT !.changes = dec.changes + 1]
    /\ UNCHANGED <<heap, parked, fvars, wcall, records, probe>>

\* instance.blacklisted_exceptions.append(...) / .remove(...)
MutateBlacklistedExceptions(classes) ==
    /\ MayChange
    /\ classes # lw.blacklisted_exceptions
    /\ lw' = [lw EXCEPT !.blacklisted_exceptions = classes]
    /\ dec' = [dec EXCEPT !.changes = dec.changes + 1]
    /\ UNCHANGED <<heap, parked, fvars, wcall, records, probe>>

\* an instance that keeps the iterables it was given as its lists
MutateGiven_kept_by_instance(names, classes) ==
    /\ MayChange
    /\ <<names, classes>> # <<dec.given_names, dec.given_exceptions>>
    /\ dec' = [dec EXCEPT !.given_names = names, !.given_exceptions = classes,
                          !.changes = dec.changes + 1]
    /\ lw' = [lw EXCEPT !.blacklisted_names = names, !.blacklisted_exceptions = classes]
    /\ UNCHANGED <<heap, parked, fvars, wcall, records, probe>>

\* the iterables given to the constructor are changed: the instance holds
\* list(blacklisted_names) and list(blacklisted_exceptions), its own lists
MutateGiven(names, classes) ==
    /\ MayChange
    /\ <<names, classes>> # <<dec.given_names, dec.given_exceptions>>
    /\ dec' = [dec EXCEPT !.given_names = names, !.given_exceptions = classes,
                          !.changes = dec.changes + 1]
    /\ UNCHANGED <<heap, parked, fvars, lw, wcall, records, probe>>

NextDec ==
    \/ \E func \in DecFuncs : Decorate(func)
    \/ \E args \in DecArgs : CallInstance(args, <<>>)
    \/ \E args \in DecArgs : CallWrapper(args, <<>>)
    \/ GetFuncArgsRepr
    \/ MakeCallingRecord
    \/ \E res \in DecResults : FuncReturns(res)
    \/ \E exception \in DecExceptions : FuncRaises(exception)
    \/ FuncRejectsArgs
    \/ MakeDoneRecord
    \/ MakeExcRecord
    \/ PassBaseException
    \/ WrapperReturn
    \/ WrapperRaise
    \/ CallDone
    \/ \E attribute \in DOMAIN AttributeValues :
        \E value \in AttributeValues[attribute] : SetAttribute(attribute, value)
    \/ \E names \in DecNames : MutateBlacklistedNames(names)
    \/ \E classes \in DecExceptionClasses : MutateBlacklistedExceptions(classes)
    \/ \E names \in DecNames, classes \in DecExceptionClasses : MutateGiven(names, classes)

SpecDec == InitDec /\ [][NextDec]_vars

(***************************************************************************)
(* What the claims speak of.                                               *)
(***************************************************************************)
Returned == {ret[i] : i \in 1..Len(ret)}
HasHook(v) == magic_method_name(fmt) \in Hooks(v)
IsContainer(v) == Kind(v) \in ContainerKinds
\* a container that the formatter itself renders
PlainContainer(v) == IsContainer(v) /\ ~HasHook(v)
\* neither hook nor signature: the value reaches the guard of process_element
ReachesGuard(v) == ~HasHook(v) /\ ~known_callable(v)
Ceil(a, b) == (a + b - 1) \div b
HasLineBreak(text) == \E i \in 1..Len(text) : text[i] = NL

\* C1: a value that has the override hook of the active mode: process_element
\* calls the hook exactly once, with (formatter, indent, no_indent_start), and
\* returns what the hook returns, with nothing added; whatever the kind of the
\* value (container, function, empty) and whatever the indent.
C1_HookVerbatim ==
    \A r \in Returned :
        HasHook(r.src) =>
            /\ r.hook_args = << [formatter |-> fmt, indent |-> r.indent,
                                 no_indent_start |-> r.nis] >>
            /\ r.text = HookResult(fmt, r.src, r.indent, r.nis)

\* a function with the hook, nested in a list, returned at indent >= max_indent
C1_Witness ==
    \E r \in Returned :
        /\ HasHook(r.src)
        /\ known_callable(r.src)
        /\ r.depth > 1
        /\ r.indent >= fmt.max_indent
        /\ r.indent > 0

\* C2: with indent_step > 0 the descent through containers ends: a container
\* reached at indent >= max_indent has no child visited and is rendered by the
\* scalar renderer, every child of a container is visited at a greater indent,
\* so no more than max_indent / indent_step (rounded up) + 1 containers are
\* ever open at once, also for a list, tuple or dict that contains itself.
C2_ContainerDescentEnds ==
    fmt.indent_step > 0 =>
        /\ \A k \in 1..(Depth - 1) :
                PlainContainer(stack[k].src) =>
                    /\ stack[k].indent < fmt.max_indent
                    /\ stack[k + 1].indent > stack[k].indent
        /\ Cardinality({k \in 1..Depth : PlainContainer(stack[k].src)})
                <= Ceil(fmt.max_indent, fmt.indent_step) + 1
        /\ \A r \in Returned :
                PlainContainer(r.src) /\ r.indent >= fmt.max_indent =>
                    r.text = repr_simple(fmt, r.src, r.indent, r.nis)

\* the list that holds itself, reached again at the boundary and rendered flat
C2_Witness ==
    /\ fmt.indent_step > 0
    /\ Depth >= 2
    /\ \E r \in Returned :
            /\ r.src = Ref("l_self")
            /\ r.depth = Depth + 1
            /\ r.indent >= fmt.max_indent
            /\ stack[Depth].src = Ref("l_self")
            /\ stack[1].src = Ref("l_self")

C4_NoRepeatedCallAtStepZero ==
    fmt.indent_step = 0 =>
        \A j, k \in 1..Depth :
            j < k /\ PlainContainer(stack[j].src) =>
                ~(/\ stack[k].src = stack[j].src
                  /\ stack[k].indent = stack[j].indent)

(***************************************************************************)
(* Reading a text: lines, indents, brackets.                               *)
(***************************************************************************)
Openers == {"(", "[", "{"}
Closers == {")", "]", "}"}
Matches(o, c) == <<o, c>> \in {<<"(", ")">>, <<"[", "]">>, <<"{", "}">>}

\* the index at which the line of text[i] starts
LineStart(text, i) == Max({0} \cup {j \in 1..(i - 1) : text[j] = NL}) + 1
\* the number of spaces at the start of the line of text[i]
LineIndent(text, i) ==
    LET s == LineStart(text, i)
    IN  Max({k \in 0..(Len(text) - s + 1) : \A j \in s..(s + k - 1) : text[j] = SP})
\* nothing but spaces and closing brackets stands before text[i] on its line
OwnLine(text, i) ==
    \A j \in LineStart(text, i)..(i - 1) : text[j] = SP \/ text[j] \in Closers

\* the bracket opened at o and closed at c: on one line, or the closing one on
\* its own line at the indent of the line of the opening one
ClosedInPlace(text, o, c) ==
    \/ LineStart(text, o) = LineStart(text, c)
    \/ OwnLine(text, c) /\ LineIndent(text, c) = LineIndent(text, o)

\* from text[i] on, with the brackets at `open` still to close: every closing
\* bracket closes the latest open one, of its kind and in place, none stays open
RECURSIVE BracketsFrom(_, _, _)
BracketsFrom(text, i, open) ==
    IF i > Len(text) THEN open = <<>>
    ELSE IF text[i] \in Openers THEN BracketsFrom(text, i + 1, Append(open, i))
    ELSE IF text[i] \in Closers
    THEN /\ open # <<>>
         /\ Matches(text[open[Len(open)]], text[i])
         /\ ClosedInPlace(text, open[Len(open)], i)
         /\ BracketsFrom(text, i + 1, SubSeq(open, 1, Len(open) - 1))
    ELSE BracketsFrom(text, i + 1, open)

Count(text, S) == Cardinality({i \in 1..Len(text) : text[i] \in S})

RECURSIVE Lines(_)
Lines(text) ==
    IF ~HasLineBreak(text) THEN <<text>>
    ELSE LET i == CHOOSE j \in 1..Len(text) :
                    text[j] = NL /\ \A k \in 1..(j - 1) : text[k] # NL
         IN  <<SubSeq(text, 1, i - 1)>> \o Lines(SubSeq(text, i + 1, Len(text)))

LeadSpaces(line) == Max({k \in 0..Len(line) : \A j \in 1..k : line[j] = SP})

\* the text without the line breaks and spaces before its first token
RECURSIVE Strip(_)
Strip(text) ==
    IF text # <<>> /\ text[1] \in {SP, NL} THEN Strip(Tail(text)) ELSE text

\* a container that process_element opens: rows and a bracket frame
Expanded(r) == PlainContainer(r.src) /\ Size(r.src) > 0 /\ r.indent < fmt.max_indent

\* C5: the output for a non-empty container has as many closing as opening
\* brackets, they nest, and a bracket closed on a later line than it was
\* opened stands there on its own line, at the indent of the opening line.
C5_BracketsBalanced ==
    \A r \in Returned :
        PlainContainer(r.src) /\ Size(r.src) > 0 =>
            /\ Count(r.text, Openers) = Count(r.text, Closers)
            /\ BracketsFrom(r.text, 1, <<>>)

\* a list of a tuple, a number and a dict, opened below max_indent after
\* no_indent_start at a positive indent, with a nested frame
C5_Witness ==
    \E r \in Returned :
        /\ r.src = Ref("d_nest")
        /\ Expanded(r)
        /\ r.indent > 0
        /\ r.indent + 2 * fmt.indent_step < fmt.max_indent
        /\ Count(r.text, Openers) >= 4

\* every line between the opening and the closing line of an opened container
\* starts at least indent_step to the right of the container (empty lines
\* have no indent)
ChildLinesIndented(r) ==
    LET ls == Lines(r.text)
        first == IF r.nis THEN 3 ELSE 2
    IN  \A j \in first..(Len(ls) - 1) :
            ls[j] = <<>> \/ LeadSpaces(ls[j]) >= r.indent + fmt.indent_step

\* the values the formatter can reach from v
Children(v) ==
    {Items(v)[i] : i \in 1..Len(Items(v))}
    \cup {Pairs(v)[i][1] : i \in 1..Len(Pairs(v))}
    \cup {Pairs(v)[i][2] : i \in 1..Len(Pairs(v))}
    \cup (IF known_callable(v)
          THEN {prepare_repr(v)[i].value : i \in 1..Len(prepare_repr(v))} \ {Empty}
          ELSE {})

RECURSIVE Reach(_)
Reach(S) ==
    LET more == S \cup UNION {Children(v) : v \in S}
    IN  IF more = S THEN S ELSE Reach(more)

\* no string that str-style would emit with a line break in it
NoBrokenLeaf(v) ==
    fmt.mode = "str" =>
        \A w \in Reach({v}) :
            Kind(w) \in {"str", "bytes"} => ~HasLineBreak(strings_str(0, w))

\* C6 as stated: every line of a child of a container opened at indent p
\* starts at p + indent_step or further right, whatever the children are.
C6_ChildLinesIndented ==
    \A r \in Returned : Expanded(r) => ChildLinesIndented(r)

\* C6 amended: the same, for containers none of whose leaves is rendered with
\* a line break of its own.
C6_ChildLinesIndentedSingleLineLeaves ==
    \A r \in Returned : Expanded(r) /\ NoBrokenLeaf(r.src) => ChildLinesIndented(r)

\* a list of a function with a list as default, all of it opened, at
\* indent_step > 0 and a positive indent
C6_Witness ==
    \E r \in Returned :
        /\ r.src = Ref("l_f")
        /\ Expanded(r)
        /\ fmt.indent_step > 0
        /\ r.indent > 0
        /\ r.indent + fmt.indent_step < fmt.max_indent
        /\ Len(Lines(r.text)) >= 8

\* the key as the mode renders it: repr(key) in repr-style, str(key) in str-style
KeyText(key) == IF fmt.mode = "repr" THEN PyRepr(key, {}) ELSE PyStr(key)
WidestKey(src) == Max({Len(KeyText(Pairs(src)[i][1])) : i \in 1..Len(Pairs(src))})

\* C7: the row a mapping emits for a pair: a line break, the row indent, the
\* key left-aligned and padded to the widest key of the whole mapping as the
\* mode renders keys, ': ' and then the value, so that in every row the colon
\* stands at row indent + widest key and the value at + 2.
C7_KeyAlignment ==
    \A r \in Returned :
        (/\ Depth >= 1
         /\ r.depth = Depth + 1
         /\ PlainContainer(Top.src)
         /\ Kind(Top.src) = "dict"
         /\ Top.pos >= 1)
        => LET key == KeyText(Pairs(Top.src)[Top.pos][1])
               width == WidestKey(Top.src)
               indent == Top.indent + fmt.indent_step
               n == 1 + indent + width + 2 + Len(r.text) + 1
               from == Len(Top.acc) - n
               row == [j \in 1..n |-> Top.acc[from + j]]
           IN  /\ from >= 0
               /\ Len(key) <= width
               /\ row[1] = NL
               /\ \A j \in 2..(1 + indent) : row[j] = SP
               /\ \A j \in 1..Len(key) : row[1 + indent + j] = key[j]
               /\ \A j \in (Len(key) + 1)..width : row[1 + indent + j] = SP
               /\ row[1 + indent + width + 1] = ":"
               /\ row[1 + indent + width + 2] = SP
               /\ \A j \in 1..Len(r.text) : row[1 + indent + width + 2 + j] = r.text[j]
               /\ row[n] = ","

\* the first row of the dict with keys 1, 'abc' and 22, at a positive indent:
\* the short key is emitted before the widest one is
C7_Witness ==
    \E r \in Returned :
        /\ Depth >= 1
        /\ r.depth = Depth + 1
        /\ Top.src = Ref("d_kv")
        /\ Branch(Top) = "dict"
        /\ Top.pos = 1
        /\ Top.indent > 0
        /\ fmt.indent_step > 0

IsSet(v) == Kind(v) = "set" /\ ~HasHook(v)

\* C8 as stated: every set comes out as 'set(' ... ')'.
C8_SetPrefixSuffix ==
    \A r \in Returned :
        IsSet(r.src) =>
            LET body == Strip(r.text)
            IN  /\ Len(body) >= 3
                /\ body[1] = "set" /\ body[2] = "("
                /\ body[Len(body)] = ")"

\* C8 amended: a set that is empty or reached at indent >= max_indent comes
\* out as 'set(' + the elements joined by ' ,' + ')' in both modes; a non-empty
\* set below max_indent is opened as a container, 'set({' ... '})' in
\* repr-style and '{' ... '}' in str-style.
C8_SetRendering ==
    \A r \in Returned :
        IsSet(r.src) =>
            LET body == Strip(r.text)
                elems == [i \in 1..Size(r.src) |->
                            IF fmt.mode = "repr" THEN PyRepr(Items(r.src)[i], {})
                            ELSE PyStr(Items(r.src)[i])]
            IN  IF Size(r.src) = 0 \/ r.indent >= fmt.max_indent
                THEN r.text = Pad(IF r.nis THEN 0 ELSE r.indent)
                              \o <<"set", "(">> \o Join(<<SP, ",">>, elems) \o <<")">>
                ELSE IF fmt.mode = "repr"
                THEN /\ SubSeq(body, 1, 3) = <<"set", "(", "{">>
                     /\ SubSeq(body, Len(body) - 1, Len(body)) = <<"}", ")">>
                ELSE /\ body[1] = "{"
                     /\ body[Len(body)] = "}"

\* the set of 1 and 'a' rendered flat in str-style, nested and indented
C8_Witness ==
    \E r \in Returned :
        /\ r.src = Ref("s12")
        /\ r.indent >= fmt.max_indent
        /\ r.indent > 0
        /\ ~r.nis
        /\ fmt.mode = "str"

ControlChars == {"LF", "CR", "TAB", "BSL", "BEL", "VT", "FF", "BS"}

\* the character a two-character escape stands for
Escaped(c) ==
    CASE c = "n" -> "LF" [] c = "r" -> "CR" [] c = "t" -> "TAB" [] c = "BSL" -> "BSL"
      [] c = "a" -> "BEL" [] c = "v" -> "VT" [] c = "f" -> "FF" [] c = "b" -> "BS"
      [] OTHER -> "none"

\* the text an escaped text stands for; "bad" marks a backslash that begins
\* no escape
RECURSIVE Unescape(_)
Unescape(text) ==
    IF text = <<>> THEN <<>>
    ELSE IF text[1] # BSL THEN <<text[1]>> \o Unescape(Tail(text))
    ELSE IF Len(text) >= 2 /\ Escaped(text[2]) # "none"
    THEN <<Escaped(text[2])>> \o Unescape(SubSeq(text, 3, Len(text)))
    ELSE <<"bad">>

IsString(v) == Kind(v) \in {"str", "bytes"}
Decoded(v) == IF Kind(v) = "bytes" THEN Decode(v.s) ELSE v.s

NoIndentBeforeFirstToken(text) ==
    \A i \in 1..Len(text) :
        text[i] = SP => \E j \in 1..(i - 1) : text[j] \notin {SP, NL}

\* C10: a call with no_indent_start of a value that is no string returns a
\* text with no indentation before its first token.
C10_NoIndentStart ==
    \A r \in Returned :
        r.nis /\ ~IsString(r.src) /\ ~HasHook(r.src) => NoIndentBeforeFirstToken(r.text)

BuiltinContainers == {"list", "tuple", "dict", "set"}

\* the text begins with the type name and '(' before the bracket
TypeNamed(r) ==
    LET body == Strip(r.text)
    IN  /\ Len(body) >= 5
        /\ SubSeq(body, 1, 3) = <<ClassName(r.src), "(", Prefix(r.src)>>
        /\ SubSeq(body, Len(body) - 1, Len(body)) = <<Suffix(r.src), ")">>

\* the text begins with the bracket and ends with its closing one
BareFrame(r) ==
    LET body == Strip(r.text)
    IN  /\ Len(body) >= 2
        /\ body[1] = Prefix(r.src)
        /\ body[Len(body)] = Suffix(r.src)

IsSignatureBlock(text) ==
    LET body == Strip(text)
    IN  /\ Len(body) >= 7
        /\ body[1] = "<"
        /\ body[4] = "with" /\ body[6] = "interface"
        /\ body[Len(body)] = ">"

\* the scalar rendering of a value that is no string and no set
ScalarText(r) ==
    Pad(IF r.nis THEN 0 ELSE r.indent)
    \o (IF fmt.mode = "repr" THEN PyRepr(r.src, {}) ELSE PyStr(r.src))

OtherCallables == {"class", "builtin", "callable"}

\* C12: a value without override hook gets a signature block if and only if
\* it is a function or a bound method; a class, a built-in function or
\* another callable object gets its scalar rendering.
C12_SignatureOnlyForFunctions ==
    \A r \in Returned :
        ~HasHook(r.src) =>
            /\ IsSignatureBlock(r.text) <=> Kind(r.src) \in {"function", "method"}
            /\ Kind(r.src) \in OtherCallables => r.text = ScalarText(r)

\* an object with __call__ formatted at a positive indent
C12_Witness ==
    \E r \in Returned :
        /\ r.src = Ref("c_obj")
        /\ r.indent > 0
        /\ ~r.nis

\* C13: an exception raised by a hook, by repr() or str() of a value or by
\* the iteration of a container, at whatever depth, stays that exception
\* through every frame it leaves and ends as the exception of the top-level
\* call: no frame turns it into a text, a return or another exception.
C13_ErrorsPropagate ==
    [][result.status = "raising" =>
         /\ result'.status \in {"raising", "raised"}
         /\ result'.error = result.error
         /\ result'.error # NoError
         /\ result'.text = <<>>
         /\ ret' = ret
         /\ Len(stack') = Len(stack) - 1
         /\ (result'.status = "raised" <=> stack' = <<>>)]_vars

\* repr() of the second element of a list raises after the row of the first
\* one is written; the list is a value of a dict: the exception has left the
\* frame of the element and is in the frame of the list
C13_Witness ==
    /\ result.status = "raising"
    /\ result.error = <<"conv", "e_repr">>
    /\ Depth = 2
    /\ stack[1].src = Ref("d_e")
    /\ Top.src = Ref("l_e")
    /\ Top.acc # <<>>

(***************************************************************************)
(* C14.  Hashing a parameter descriptor, a ReprParameter of the signature  *)
(* renderer or a BoundParameter of bind_args_kwargs, always raises         *)
(* TypeError and never returns a hash value.                               *)
(***************************************************************************)
HashProbed == probe.op \in {"hash(ReprParameter)", "hash(BoundParameter)"}

C14_DescriptorsUnhashable ==
    HashProbed => probe.error # NoError /\ probe.error[1] = "TypeError" /\ probe.hash = <<>>

(***************************************************************************)
(* C15.  A parameter of kind VAR_POSITIONAL or VAR_KEYWORD that has no     *)
(* explicit value is rendered with the value () or {} - never as the unset *)
(* marker and never without a value - in the argument block of the call    *)
(* logger, in the text of a BoundParameter and in the signature renderer's *)
(* rendering of a bare function.                                           *)
(***************************************************************************)
Contains(text, part) ==
    \E i \in 1..(Len(text) - Len(part) + 1) : SubSeq(text, i, i + Len(part) - 1) = part

VarKinds == {"VAR_POSITIONAL", "VAR_KEYWORD"}
EmptyOf(kind) == IF kind = "VAR_POSITIONAL" THEN <<"(", ")">> ELSE <<"{", "}">>
Unvalued(param) == param.kind \in VarKinds /\ param.value = Empty

\* the argument block, once _get_func_args_repr has returned it
ArgumentBlockRendersEmpty ==
    wcall.pc = "calling" /\ (lw.log_call_args \/ lw.log_call_args_on_exc) =>
        \A i \in 1..Len(Signature(wcall.func)) :
            LET param == bind_args_kwargs(Signature(wcall.func), wcall.args, wcall.kwargs)[i]
            IN  Unvalued(param) /\ param.name \notin lw.blacklisted_names =>
                    Contains(wcall.args_repr,
                             <<param.name, "=">> \o EmptyOf(param.kind) \o <<",">>)

\* str() of a BoundParameter
BoundParameterRendersEmpty ==
    probe.op = "str(BoundParameter)" /\ Unvalued(probe.param) =>
        Contains(probe.text, <<probe.param.name, "=">> \o EmptyOf(probe.param.kind))

\* pretty_repr of a bare function: each parameter with its value
SignatureRendersEmpty ==
    probe.op = "pretty_repr" /\ Kind(probe.subject) = "function" =>
        \A i \in 1..Len(prepare_repr(probe.subject)) :
            LET param == prepare_repr(probe.subject)[i]
            IN  Unvalued(param) =>
                    Contains(probe.text, param.name \o <<"=">> \o EmptyOf(param.kind))

\* pretty_repr of a bare function: the parameter's name, no value
SignatureRendersNoValue ==
    probe.op = "pretty_repr" /\ Kind(probe.subject) = "function" =>
        \A i \in 1..Len(prepare_repr(probe.subject)) :
            LET param == prepare_repr(probe.subject)[i]
            IN  Unvalued(param) =>
                    /\ Contains(probe.text, <<NL>> \o Pad(probe.indent + DefaultIndentStep)
                                            \o param.name \o <<",">>)
                    /\ ~Contains(probe.text, param.name \o <<"=">>)

C15_VarParamsRenderEmptyEverywhere ==
    ArgumentBlockRendersEmpty /\ BoundParameterRendersEmpty /\ SignatureRendersEmpty

\* C15 as the code has it: () and {} in the argument block of the call
\* logger and in the text of a BoundParameter; the signature renderer writes
\* the name of such a parameter, *args or **kwargs, and no value.
C15_VarParamsRenderEmpty ==
    ArgumentBlockRendersEmpty /\ BoundParameterRendersEmpty /\ SignatureRendersNoValue

C15_Witness ==
    /\ wcall.pc = "calling"
    /\ wcall.func = Ref("f_vars")
    /\ wcall.args = <<>>
    /\ wcall.kwargs = <<>>
    /\ lw.log_call_args
    /\ Contains(wcall.args_repr, <<"args", "=", "(", ")", ",">>)
    /\ Contains(wcall.args_repr, <<"kw", "=", "{", "}", ",">>)

(***************************************************************************)
(* C16.  Formatting is deterministic and stateless: two calls of the same  *)
(* formatter on the same unmodified value with the same indent and         *)
(* no_indent_start return identical text, whatever was formatted in        *)
(* between, and no call changes the formatter's max_indent or indent_step. *)
(* The two calls are that of the running thread and that of a parked one,  *)
(* which keeps what it returned while the running thread makes its calls.  *)
(***************************************************************************)
HasReturned(thread) == thread.result.status = "ok"
RunningThread == [stack |-> stack, ret |-> ret, result |-> result]
SameInputs(r1, r2) == r1.src = r2.src /\ r1.indent = r2.indent /\ r1.nis = r2.nis

SameTextForSameInputs ==
    \A t \in DOMAIN parked :
        HasReturned(RunningThread) /\ HasReturned(parked[t]) /\ SameInputs(ret[1], parked[t].ret[1])
            => result.text = parked[t].result.text

TextAlone(thread) ==
    process_element_text(fmt, thread.ret[1].src, thread.ret[1].indent, thread.ret[1].nis)

\* the running thread has the text and the record of its own call
CallAsAlone ==
    HasReturned(RunningThread) =>
        /\ ret # <<>>
        /\ ret[1].depth = 1
        /\ result.text = ret[1].text
        /\ result.text = TextAlone(RunningThread)

C17_ThreadsDoNotInterfere ==
    [][/\ CallAsAlone'
       /\ \A t \in DOMAIN parked : parked'[t] \in {parked[t], RunningThread}]_vars

\* both threads are inside a container when the running one returns
C17_Witness ==
    /\ HasReturned(RunningThread)
    /\ ret[1].src = Ref("d_kv")
    /\ parked["t2"].stack # <<>>
    /\ parked["t2"].stack[1].src = Ref("l1")
    /\ parked["t2"].stack[1].pos > 0

(***************************************************************************)
(* C18.  For every call of a decorated synchronous function that returns   *)
(* normally the steps happen in this order, once each: the arguments are   *)
(* bound and rendered, one 'Calling' record is emitted at log_level, the   *)
(* wrapped callable is invoked, one 'Done' record with the rendered result *)
(* is emitted at log_level, and the wrapper returns the callable's result; *)
(* no record is emitted at exc_level.                                      *)
(***************************************************************************)
StartsWith(text, head) == Len(text) >= Len(head) /\ SubSeq(text, 1, Len(head)) = head
EndsWith(text, tail) ==
    Len(text) >= Len(tail) /\ SubSeq(text, Len(text) - Len(tail) + 1, Len(text)) = tail

CallHead(method) == <<method, ":", SP, NL, FuncName(wcall.func), "(">>
DoneHead == <<"Done", ":", SP, "'", FuncName(wcall.func), "'">>
RenderedArguments ==
    get_func_args_repr(lw, Signature(wcall.func), wcall.args, wcall.kwargs)
RenderedResult ==
    <<SP, "with", SP, "result", ":", NL>> \o pretty_repr(wcall.result, 0, FALSE, lw.max_indent)

\* the two records of a call that returned, whatever they show
TwoRecordsAtLogLevel ==
    /\ Len(records) = 2
    /\ records[1].level = lw.log_level
    /\ StartsWith(records[1].msg, CallHead("Calling"))
    /\ records[2].level = lw.log_level
    /\ StartsWith(records[2].msg, DoneHead)
    /\ \A i \in 1..Len(records) :
            records[i].level # lw.exc_level /\ ~StartsWith(records[i].msg, <<"Failed">>)

C18_ReturnedCallAllSteps ==
    wcall.pc = "returned" =>
        /\ wcall.steps = <<"bind", "calling", "invoke", "done", "return">>
        /\ TwoRecordsAtLogLevel
        /\ records[2].msg = DoneHead \o RenderedResult

\* C18 as the code has it: the arguments are bound and rendered unless both
\* log_call_args and log_call_args_on_exc are off, the 'Calling' record shows
\* them when log_call_args is on, and the 'Done' record shows the rendered
\* result when log_result_obj is on.
C18_ReturnedCallSteps ==
    wcall.pc = "returned" =>
        /\ wcall.steps =
                (IF lw.log_call_args \/ lw.log_call_args_on_exc THEN <<"bind">> ELSE <<>>)
                \o <<"calling", "invoke", "done", "return">>
        /\ TwoRecordsAtLogLevel
        /\ records[1].msg =
                CallHead("Calling")
                \o (IF lw.log_call_args THEN RenderedArguments ELSE <<>>) \o <<")">>
        /\ records[2].msg = DoneHead \o (IF lw.log_result_obj THEN RenderedResult ELSE <<>>)
        /\ wcall.result \in FuncResults
        /\ wcall.exc = NoError

C18_Witness ==
    /\ wcall.pc = "returned"
    /\ wcall.func = Ref("f_ab")
    /\ wcall.args = <<Ref("i22")>>
    /\ wcall.result = Ref("l1")
    /\ lw.log_call_args
    /\ lw.log_result_obj
    /\ Len(records) = 2
    /\ Contains(records[1].msg, <<"a", "=", "2", "2", ",">>)
    /\ EndsWith(records[2].msg, pretty_repr(Ref("l1"), 0, FALSE, DefaultMaxIndent))

(***************************************************************************)
(* C19.  Whenever the wrapped callable raises an exception E, the          *)
(* decorated call raises that same E to the caller, whatever the logging   *)
(* flags and blacklists, exactly one 'Failed' record is emitted at         *)
(* exc_level after the pre-call record, and no 'Done' record is emitted.   *)
(***************************************************************************)
CallableRaised == wcall.pc = "raised" /\ wcall.func_exc # NoError

SameExceptionNoDone ==
    /\ wcall.exc = wcall.func_exc
    /\ Len(records) >= 1
    /\ StartsWith(records[1].msg, CallHead("Calling"))
    /\ \A i \in 1..Len(records) : ~StartsWith(records[i].msg, <<"Done">>)

OneFailedRecord ==
    /\ Len(records) = 2
    /\ records[2].level = lw.exc_level
    /\ StartsWith(records[2].msg, CallHead("Failed"))

BlacklistedRaised ==
    CallableRaised /\ IsInstance(wcall.func_exc, lw.blacklisted_exceptions)

C20_BlacklistedNoErrorRecord ==
    BlacklistedRaised =>
        /\ wcall.exc = wcall.func_exc
        /\ \A i \in 1..Len(records) :
                records[i].level # lw.exc_level /\ ~StartsWith(records[i].msg, <<"Failed">>)

(***************************************************************************)
(* C21.  For every decorated call, an argument whose name is in            *)
(* blacklisted_names is absent from the rendered arguments of every log    *)
(* record (pre-call and failure) - including when it is passed as an extra *)
(* keyword collected by a **kwargs parameter - while every other bound     *)
(* parameter is rendered exactly once, in signature order.                 *)
(***************************************************************************)
\* the records that show the argument block
ArgumentRecords ==
    {i \in 1..Len(records) :
        \/ StartsWith(records[i].msg, <<"Calling">>) /\ lw.log_call_args
        \/ StartsWith(records[i].msg, <<"Failed">>) /\ lw.log_call_args_on_exc}

\* where the row of the parameter `name` starts in a text
RowsOf(text, name) ==
    {k \in 1..(Len(text) - INDENT - 2) :
        SubSeq(text, k, k + INDENT + 2) = <<NL>> \o Pad(INDENT) \o <<name, "=">>}

\* the name is that of a row or a key of a rendered mapping
Mentions(text, name) ==
    RowsOf(text, name) # {} \/ Contains(text, PyRepr(Str(<<name>>), {}))

\* no blacklisted name in the argument block of a record
BlacklistedNamesAbsent ==
    \A i \in ArgumentRecords :
        \A name \in lw.blacklisted_names : ~Mentions(records[i].msg, name)

\* one row for each parameter that is not blacklisted, in signature order
OtherParametersOnceInOrder ==
    \A i \in ArgumentRecords :
        LET sig == Signature(wcall.func)
            shown == {p \in 1..Len(sig) : sig[p].name \notin lw.blacklisted_names}
        IN  /\ \A p \in shown : Cardinality(RowsOf(records[i].msg, sig[p].name)) = 1
            /\ \A p, q \in shown :
                    p < q => \A k \in RowsOf(records[i].msg, sig[p].name),
                                l \in RowsOf(records[i].msg, sig[q].name) : k < l

C21_BlacklistedNamesNeverRendered ==
    BlacklistedNamesAbsent /\ OtherParametersOnceInOrder

(***************************************************************************)
(* C22.  If the arguments of a decorated call do not satisfy the           *)
(* signature's arity/kind constraints, then for every setting of the       *)
(* logging flags the binding error propagates to the caller, no log record *)
(* at all (pre-call, done or failed) is emitted, and the wrapped callable  *)
(* is not invoked.                                                         *)
(***************************************************************************)
\* a call is on its way whose arguments do not fit the signature
ArgumentsDoNotFit ==
    /\ wcall.pc # "idle"
    /\ BindError(Signature(wcall.func), wcall.args, wcall.kwargs) # NoError

\* the wrapper binds the arguments: one of the two argument flags is set
BindsArguments == lw.log_call_args \/ lw.log_call_args_on_exc

\* the binding error ends the call before any record and before the call
\* of the function
BindingErrorOnly ==
    /\ wcall.pc \in {"args_repr", "raised"}
    /\ wcall.pc = "raised" => wcall.exc = <<"TypeError", "bind">>
    /\ records = <<>>
    /\ \A i \in 1..Len(wcall.steps) : wcall.steps[i] = "bind"

\* the function's own call raises: no value returned, no 'Done' record, and
\* the caller gets the TypeError after a pre-call and a 'Failed' record
\* that show no arguments
CallRejectsArguments ==
    /\ wcall.pc # "returned"
    /\ wcall.result = Empty
    /\ \A i \in 1..Len(wcall.steps) : wcall.steps[i] \notin {"bind", "done", "return"}
    /\ \A i \in 1..Len(records) : ~StartsWith(records[i].msg, DoneHead)
    /\ wcall.pc = "raised" =>
            /\ wcall.exc = <<"TypeError", "call">>
            /\ Len(records) = 2
            /\ records[1].msg = <<"Calling", ":", SP, NL, FuncName(wcall.func), "(", ")">>
            /\ StartsWith(records[2].msg,
                          <<"Failed", ":", SP, NL, FuncName(wcall.func), "(", ")", NL>>)

C22_BindingErrorForEveryFlagSetting == ArgumentsDoNotFit => BindingErrorOnly

\* C22 as the code has it: the arguments are bound, and the binding error
\* raised before any record, only when log_call_args or log_call_args_on_exc
\* is set.  With both flags off the wrapper binds nothing: it logs the
\* pre-call record, the call of the function raises the TypeError, which is
\* logged as 'Failed' and raised again.
C22_BindingErrorWhenArgumentsLogged ==
    ArgumentsDoNotFit =>
        IF BindsArguments THEN BindingErrorOnly ELSE CallRejectsArguments

C22_Witness ==
    /\ ArgumentsDoNotFit
    /\ BindsArguments
    /\ wcall.pc = "raised"
    /\ wcall.exc = <<"TypeError", "bind">>
    /\ wcall.steps = <<"bind">>
    /\ records = <<>>

(***************************************************************************)
(* C23.  A decorator instance constructed with the function (used without  *)
(* braces) builds the function wrapper via _get_function_wrapper on every  *)
(* call of the decorated object, once per call and before the function     *)
(* runs, and the decorated name stays the decorator instance; a decorator  *)
(* constructed without a function (used with braces) builds the wrapper    *)
(* exactly once, when it is applied to the function, returns the plain     *)
(* wrapper, and never rebuilds it on later calls.                          *)
(***************************************************************************)
\* where the running call built its wrapper, among its steps
WrapSteps == {i \in 1..Len(wcall.steps) : wcall.steps[i] = "wrap"}

\* made with the function: one wrapper per call, built as the call's first
\* step, and the decorated name is the instance
WithoutBraces ==
    dec.func # Empty =>
        /\ dec.name = "instance"
        /\ dec.built = dec.calls
        /\ wcall.pc # "idle" => WrapSteps = {1}

\* made without a function: no wrapper before the instance is applied, one
\* from then on, and the decorated name is the wrapper, on the function
\* the instance was applied to
WithBraces ==
    dec.func = Empty /\ dec # NoDecorator =>
        /\ dec.name \in {"none", "wrapper"}
        /\ dec.name = "none" => dec.built = 0 /\ dec.calls = 0 /\ wcall.pc = "idle"
        /\ dec.name = "wrapper" =>
                /\ dec.built = 1
                /\ WrapSteps = {}
                /\ dec.wrapped \in DecFuncs
                /\ wcall.pc # "idle" => wcall.func = dec.wrapped

C23_WrapperBuilding == WithoutBraces /\ WithBraces

C23_Witness ==
    /\ dec.func # Empty
    /\ dec.calls = MaxCalls
    /\ dec.built = MaxCalls
    /\ wcall.pc = "returned"
    /\ wcall.steps = <<"wrap", "bind", "calling", "invoke", "done", "return">>

(***************************************************************************)
(* C24.  Changing a LogWrap instance's settings after a function has been  *)
(* decorated with it - assigning log_level, exc_level, max_indent,         *)
(* log_call_args, log_call_args_on_exc, log_traceback or log_result_obj,   *)
(* or mutating the lists returned by blacklisted_names /                   *)
(* blacklisted_exceptions - takes effect on every later call of the        *)
(* already-decorated function and on no record emitted earlier; mutating   *)
(* the iterable that was passed to the constructor has no effect.          *)
(***************************************************************************)
\* the records of a call of the wrapper under the settings w, given what
\* the function did
ExpectedRecords(w) ==
    LET sig == Signature(wcall.func)
        name == FuncName(wcall.func)
        arguments == get_func_args_repr(w, sig, wcall.args, wcall.kwargs)
        calling == calling_record(w, name, arguments, "Calling")
    IN  IF get_func_args_repr_error(w, sig, wcall.args, wcall.kwargs) # NoError THEN <<>>
        ELSE IF wcall.func_exc # NoError
        THEN IF IsException(wcall.func_exc)
             THEN <<calling, exc_record(w, name, arguments, wcall.func_exc)>>
             ELSE <<calling>>
        ELSE IF done_record_error(w, wcall.result) # NoError
        THEN <<calling, exc_record(w, name, arguments, done_record_error(w, wcall.result))>>
        ELSE <<calling, done_record(w, name, wcall.result)>>

\* a finished call during which no setting was changed has the records of
\* the settings as they are now, whatever they were at the decoration and
\* in the calls before
CallUsesCurrentSettings ==
    wcall.pc \in {"returned", "raised"} /\ dec # NoDecorator /\ lw = dec.entry =>
        SubSeq(records, dec.first, Len(records)) = ExpectedRecords(lw)

\* a step leaves the records emitted so far as they are
EarlierRecordsKept ==
    /\ Len(records') >= Len(records)
    /\ SubSeq(records', 1, Len(records)) = records

\* a step that changes the iterables given to the constructor leaves the
\* settings of the instance as they are
GivenHasNoEffect ==
    <<dec.given_names, dec.given_exceptions>>' # <<dec.given_names, dec.given_exceptions>>
        => lw' = lw

C24_SettingsTakeEffect ==
    [][EarlierRecordsKept /\ GivenHasNoEffect /\ CallUsesCurrentSettings']_vars

\* the second call of a function decorated with log_call_args set, after
\* log_call_args was set to False: the first pre-call record shows the
\* argument, the second none
C24_Witness ==
    /\ dec.calls = MaxCalls
    /\ dec.changes = 1
    /\ wcall.pc = "returned"
    /\ lw = dec.entry
    /\ ~lw.log_call_args
    /\ dec.first = 3
    /\ Len(records) = 4
    /\ RowsOf(records[1].msg, "a") # {}
    /\ records[3].msg = <<"Calling", ":", SP, NL, FuncName(wcall.func), "(", ")">>
    /\ dec.given_names = lw.blacklisted_names

(***************************************************************************)
(* C25.  A non-empty sequence or set with n elements rendered as a         *)
(* container yields exactly n element rows and a mapping with n pairs      *)
(* yields exactly n 'key: value,' rows, each element or pair rendered      *)
(* exactly once, in the container's iteration order, each row ending with  *)
(* ',' and sequence rows carrying no alignment padding.                    *)
(***************************************************************************)
\* the value of the return was opened as a container
RenderedAsContainer(r) ==
    process_element_branch(fmt, r.src, r.indent) \in {"iterable", "dict"}

\* the row of the i-th element: a line break, the element as the formatter
\* renders it one step deeper, a comma
ElementRow(r, i) ==
    <<NL>>
    \o process_element_text(fmt, Items(r.src)[i], r.indent + fmt.indent_step, FALSE)
    \o <<",">>

\* the row of the i-th pair: a line break, the row indent, the key padded
\* to the widest key, ': ', the value as the formatter renders it two steps
\* deeper, a comma
PairRow(r, i) ==
    <<NL>> \o Pad(r.indent + fmt.indent_step)
    \o KeyText(Pairs(r.src)[i][1])
    \o Pad(WidestKey(r.src) - Len(KeyText(Pairs(r.src)[i][1])))
    \o <<":", SP>>
    \o process_element_text(fmt, Pairs(r.src)[i][2], r.indent + 2 * fmt.indent_step, TRUE)
    \o <<",">>

\* the n rows of the container, in iteration order
ContainerRows(r) ==
    Cat([i \in 1..Size(r.src) |->
            IF Kind(r.src) = "dict" THEN PairRow(r, i) ELSE ElementRow(r, i)])

\* the text is the opening up to the bracket, the n rows and nothing else
\* between the brackets, a line break and the closing
C25_OneRowPerElement ==
    \A r \in Returned :
        RenderedAsContainer(r) =>
            /\ Size(r.src) >= 1
            /\ \E k \in 1..Len(r.text) :
                LET rows == ContainerRows(r)
                    opening == SubSeq(r.text, 1, k)
                    closing == SubSeq(r.text, k + Len(rows) + 1, Len(r.text))
                IN  /\ opening[k] = Prefix(r.src)
                    /\ Count(opening, {","}) = 0
                    /\ k + Len(rows) < Len(r.text)
                    /\ SubSeq(r.text, k + 1, k + Len(rows)) = rows
                    /\ closing[1] = NL
                    /\ Count(closing, {",", NL}) = 1
                    /\ Count(closing, {Suffix(r.src)}) >= 1

C25_Witness ==
    \E r \in Returned :
        /\ RenderedAsContainer(r)
        /\ r.src = Ref("l_nest")
        /\ fmt.mode = "repr"
        /\ fmt.indent_step = 1
        /\ Size(r.src) = 3
        /\ process_element_branch(fmt, Items(r.src)[3], r.indent + 1) = "dict"

(***************************************************************************)
(* C26.  Rendering a function or method with n >= 0 declared parameters    *)
(* yields exactly n parameter lines, in declaration order, each at         *)
(* indent + indent_step and ending with ','; when n = 0 nothing at all (no *)
(* newline, no spaces) is emitted between '(' and ')', and when n > 0 the  *)
(* closing ')' is on its own line at the callable's indent.                *)
(* A parameter line is the text of one parameter, from its line break to   *)
(* its comma; the rendering of a value that is a container or a callable   *)
(* has line breaks of its own inside it.                                   *)
(***************************************************************************)
\* the value of the return was rendered by the signature renderer
RenderedAsCallable(r) == process_element_branch(fmt, r.src, r.indent) = "callable"

\* the line of the i-th parameter: a line break, indent + indent_step
\* spaces, the name, the annotation and the value if it has them, a comma
ParameterLine(r, i) ==
    LET param == prepare_repr(r.src)[i]
    IN  <<NL>> \o Pad(r.indent + fmt.indent_step) \o param.name
        \o (IF param.annotation # <<>> THEN <<":", SP>> \o param.annotation ELSE <<>>)
        \o (IF param.value # Empty
            THEN <<"=">> \o process_element_text(fmt, param.value, r.indent, TRUE)
            ELSE <<>>)
        \o <<",">>

\* what stands between '(' and ')'
ParameterBlock(r) ==
    LET lines == Cat([i \in 1..Len(prepare_repr(r.src)) |-> ParameterLine(r, i)])
    IN  IF Len(prepare_repr(r.src)) = 0 THEN <<>>
        ELSE lines \o <<NL>> \o Pad(r.indent)

C26_ParameterLines ==
    \A r \in Returned :
        RenderedAsCallable(r) =>
            \E k \in 3..Len(r.text) :
                LET block == ParameterBlock(r)
                    after == SubSeq(r.text, k + Len(block) + 1, Len(r.text))
                IN  /\ SubSeq(r.text, k - 2, k) = <<"interface", SP, "(">>
                    /\ Count(SubSeq(r.text, 1, k), {",", "(", ")"}) = 1
                    /\ k + Len(block) < Len(r.text)
                    /\ SubSeq(r.text, k + 1, k + Len(block)) = block
                    /\ after[1] = ")"
                    /\ after[Len(after)] = ">"
                    /\ Count(after, {NL, ",", "(", ")"}) = 1

\* a bound method with its receiver and a default, and a function without
\* parameters inside a mapping
C26_Witness ==
    \E r \in Returned :
        /\ RenderedAsCallable(r)
        /\ r.src = Ref("m_obj")
        /\ Len(prepare_repr(r.src)) = 2
        /\ prepare_repr(r.src)[1].value = Ref("obj")
        /\ r.indent = 1
        /\ fmt.indent_step = 2

(***************************************************************************)
(* C27.  Each logging flag gates only its own record's content: with       *)
(* log_call_args=False the pre-call record contains no rendered arguments, *)
(* with log_call_args_on_exc=False the failure record contains none, the   *)
(* two being independent of each other; with log_result_obj=False the      *)
(* 'Done' record contains no result and the result is never passed to the  *)
(* formatter; and when both argument flags are False the arguments are     *)
(* neither bound nor rendered.                                             *)
(***************************************************************************)
\* the argument block a record shows under its flag
ShownArguments(flag) == IF flag THEN wcall.args_repr ELSE <<>>

\* each record shows what its own flag says, whatever the other flags say
RecordsFollowOwnFlag ==
    \A i \in 1..Len(records) :
        /\ StartsWith(records[i].msg, <<"Calling">>) =>
                records[i].msg
                    = CallHead("Calling") \o ShownArguments(lw.log_call_args) \o <<")">>
        /\ StartsWith(records[i].msg, <<"Failed">>) =>
                StartsWith(records[i].msg,
                           CallHead("Failed") \o ShownArguments(lw.log_call_args_on_exc)
                           \o <<")", NL>>)
        /\ StartsWith(records[i].msg, <<"Done">>) =>
                records[i].msg
                    = DoneHead \o (IF lw.log_result_obj THEN RenderedResult ELSE <<>>)

\* with one of the argument flags set the arguments are bound and rendered
\* before the pre-call record, also when that record does not show them
ArgumentsRenderedForEitherFlag ==
    BindsArguments /\ records # <<>> =>
        /\ wcall.steps[1] = "bind"
        /\ wcall.args_repr = RenderedArguments

\* with log_result_obj off the formatter never gets the result: a result
\* whose repr() raises is returned as any other
ResultNotFormatted ==
    ~lw.log_result_obj /\ wcall.result # Empty =>
        /\ wcall.pc \in {"done", "return", "returned"}
        /\ wcall.exc = NoError

\* with both argument flags off nothing is bound and nothing rendered: no
\* binding error, no error of an argument's repr(), an empty argument block
ArgumentsUntouched ==
    ~BindsArguments /\ wcall.pc # "idle" =>
        /\ \A i \in 1..Len(wcall.steps) : wcall.steps[i] # "bind"
        /\ wcall.args_repr = <<>>
        /\ wcall.exc # NoError =>
                \/ wcall.exc = wcall.func_exc
                \/ wcall.exc = done_record_error(lw, wcall.result)

C27_FlagsGateOwnRecords ==
    /\ RecordsFollowOwnFlag
    /\ ArgumentsRenderedForEitherFlag
    /\ ResultNotFormatted
    /\ ArgumentsUntouched

\* log_call_args off, log_call_args_on_exc on, the function raised: the
\* pre-call record shows no argument, the 'Failed' record shows them
C27_Witness ==
    /\ wcall.pc = "raised"
    /\ ~lw.log_call_args
    /\ lw.log_call_args_on_exc
    /\ wcall.func = Ref("f_ab")
    /\ wcall.args_repr # <<>>
    /\ Len(records) = 2
    /\ records[1].msg = CallHead("Calling") \o <<")">>
    /\ StartsWith(records[2].msg, CallHead("Failed") \o wcall.args_repr)

(***************************************************************************)
(* C28.  With indent_step > 0, every recursive call of process_element     *)
(* made while rendering a value at indent i - from the sequence renderer,  *)
(* the mapping renderer and the signature renderer (parameter values,      *)
(* bound receiver) - is made at an indent strictly greater than i, so the  *)
(* recursion depth of one top-level call never exceeds                     *)
(* max_indent / indent_step + 1 for any input, including a function whose  *)
(* default value or bound receiver refers back to the function.            *)
(***************************************************************************)
\* each nested call is deeper in indent than the call that made it
NestedCallsIndentDeeper ==
    \A k \in 1..(Depth - 1) : stack[k + 1].indent > stack[k].indent

\* the calls of process_element open at once, against the bound (the
\* quotient rounded up)
DepthWithinIndentBound == Depth <= Ceil(fmt.max_indent, fmt.indent_step) + 1

C28_RecursionBoundedByIndent ==
    fmt.indent_step > 0 => NestedCallsIndentDeeper /\ DepthWithinIndentBound

(***************************************************************************)
(* C29.  If the wrapped callable returns normally, the decorated call      *)
(* returns that same result to the caller and emits no 'Failed' record at  *)
(* exc_level - a 'Failed' record appears only for calls in which the       *)
(* wrapped callable itself raised - also when rendering the result for the *)
(* 'Done' record or emitting that record fails.                            *)
(***************************************************************************)
\* the wrapped callable has returned a value in the running call
CallableReturned == wcall.result # Empty
FailedRecords == {i \in 1..Len(records) : StartsWith(records[i].msg, <<"Failed">>)}
\* the exception of rendering the result for the 'Done' record
RenderingError == done_record_error(lw, wcall.result)

C29_ReturnedNeverFailed ==
    /\ CallableReturned =>
            /\ wcall.pc \in {"done", "return", "returned"}
            /\ FailedRecords = {}
    /\ FailedRecords # {} => wcall.func_exc # NoError

\* C29 as the code has it: _make_done_record runs inside the try statement.
\* A callable that returned has its result returned and no 'Failed' record
\* when the 'Done' record is made; when rendering the result raises an
\* Exception, the wrapper logs it as 'Failed' at exc_level and raises it,
\* and the result does not reach the caller.
C29_ReturnedUnlessDoneRecordFails ==
    /\ CallableReturned /\ RenderingError = NoError =>
            /\ wcall.pc \in {"done", "return", "returned"}
            /\ wcall.exc = NoError
            /\ FailedRecords = {}
    /\ CallableReturned /\ RenderingError # NoError =>
            /\ wcall.pc \in {"done", "except", "raise", "raised"}
            /\ wcall.func_exc = NoError
            /\ wcall.pc # "done" => wcall.exc = RenderingError
            /\ wcall.pc \in {"raise", "raised"} /\ IsException(RenderingError) =>
                    /\ FailedRecords = {2}
                    /\ records[2] = exc_record(lw, FuncName(wcall.func), wcall.args_repr,
                                               RenderingError)
            /\ \A i \in 1..Len(records) : ~StartsWith(records[i].msg, <<"Done">>)
    /\ wcall.pc = "returned" =>
            /\ CallableReturned
            /\ wcall.exc = NoError
            /\ records[Len(records)] = done_record(lw, FuncName(wcall.func), wcall.result)
    /\ FailedRecords # {} =>
            \/ wcall.func_exc # NoError
            \/ CallableReturned /\ RenderingError # NoError

\* the callable returned a value whose repr() raises, log_result_obj is on:
\* the caller gets the exception after a 'Failed' record
C29_Witness ==
    /\ CallableReturned
    /\ wcall.result = Ref("e_repr")
    /\ lw.log_result_obj
    /\ wcall.pc = "raised"
    /\ wcall.exc = <<"conv", "e_repr">>
    /\ FailedRecords = {2}
    /\ records[2].level = lw.exc_level

(***************************************************************************)
(* C30.  Repr-style rendering of strings is injective per type: two        *)
(* different text strings never produce the same rendering, two different  *)
(* byte strings never produce the same rendering (including byte strings   *)
(* that are not valid UTF-8), and a text string never renders like a byte  *)
(* string.                                                                 *)
(***************************************************************************)
\* the text and byte strings the formatter may be given
StringValues == {Str(s) : s \in Strings} \cup {Bytes(b) : b \in ByteStrings}

\* the strings other than the one returned that repr-style renders, at the
\* same indent, to the text returned
SameRendering(r) ==
    {v \in StringValues : v # r.src /\ repr_simple(fmt, v, r.indent, r.nis) = r.text}

C30_StringReprInjective ==
    fmt.mode = "repr" =>
        \A r \in Returned : IsString(r.src) => SameRendering(r) = {}

\* C30 as the code has it: a byte string is decoded with
\* errors="backslashreplace" before it is escaped, so a byte that is not
\* valid UTF-8 is rendered as the byte string that spells its escape; two
\* byte strings have the same rendering exactly when they decode to the
\* same text.  Text strings are rendered injectively, and never like a byte
\* string.
C30_StringReprInjectiveOnDecodedText ==
    fmt.mode = "repr" =>
        \A r \in Returned :
            /\ Kind(r.src) = "str" => SameRendering(r) = {}
            /\ Kind(r.src) = "bytes" =>
                    SameRendering(r)
                        = {v \in StringValues :
                                /\ v # r.src
                                /\ Kind(v) = "bytes"
                                /\ Decode(v.s) = Decode(r.src.s)}

\* the byte 0xFF is rendered, and so are the four bytes that spell its escape
C30_Witness ==
    /\ fmt.mode = "repr"
    /\ \E r \in Returned :
        /\ r.src = Bytes(<<"xFF">>)
        /\ SameRendering(r) = {Bytes(<<"BSL", "x", "f", "f">>)}

====
